---- MODULE Spec2Model ----
(***************************************************************************)
(* Skill & Tool runtime of skillian: the SkillRegistry (app/core/registry) *)
(* and the query-template tools (app/core/query_template, yaml_tools).     *)
(***************************************************************************)
EXTENDS Integers, Sequences, FiniteSets, TLC

VARIABLES
    skills,      \* SkillRegistry._skills: skill name -> Skill (its tool-name list)
    tool_index,  \* SkillRegistry._tool_index: tool name -> owning skill name
    regCall,     \* the last registry call: operation, name of its argument,
                 \* how it ended, what it returned
    pre,         \* the two maps as they were before the last call, kept while
                 \* that call is an accepted register (cleared by any other call)
    tool,        \* a query-template tool: which callable it has, its template,
                 \* the order of the template's parameter list, its row limit
    connector,   \* the connector bound to the tool
    arguments,   \* the keyword arguments of the invocation
    pc,          \* "ready" before the invocation, "done" after it
    rendered,    \* what the render step of the invocation yielded
    calls,       \* the calls the connector received during the invocation
    payload,     \* the dict the callable returned
    raised,      \* the exception that left the callable, "none" if it returned
    build_args,  \* the arguments of _build_tool: a tool entry of a manifest and
                 \* whether a connector is supplied with it
    built,       \* what _build_tool made of them: a Tool or a ToolLoadError
    files,       \* the skills directory: per skill the content and the
                 \* modification time of SKILL.md, tools.yaml and tools.py
    clock,       \* the time of the last modification of a file
    loaded_skills,  \* SkillLoader._loaded_skills: skill name -> Skill object
    skill_mtimes,   \* SkillLoader._skill_mtimes: skill name -> cached mtime
    heap,        \* the Skill objects that are referenced: object -> its fields
    modules,     \* sys.modules: skill name -> the tools.py content imported
    loadCall,    \* the last loader call: operation, skill, outcome, result
    held,        \* the Tool an invocation in flight holds (taken from a Skill)
    ran,         \* the Tool the last finished invocation executed
    disabled,    \* the skill directories that hold a .disabled marker
    allCall,     \* the last call of discover_skills, load_all_skills or
                 \* load_skill_metadata: how it ended, what it returned
    loading,     \* a load_skill under way: the skill and the files as read
    agent        \* an Agent and its process call: max_iterations, iterations,
                 \* the conversation, the tool calls still to execute,
                 \* tool_calls_made, the AgentResponse

regVars == <<skills, tool_index, regCall, pre>>

toolVars == <<tool, connector, arguments, pc, rendered, calls, payload, raised>>

buildVars == <<build_args, built>>

vars == <<skills, tool_index, regCall, pre,
          tool, connector, arguments, pc, rendered, calls, payload, raised,
          build_args, built,
          files, clock, loaded_skills, skill_mtimes, heap, modules, loadCall,
          held, ran, disabled, allCall, loading, agent>>

loadVars == <<files, clock, loaded_skills, skill_mtimes, heap, modules, loadCall,
              held, ran>>

dirVars == <<disabled, allCall>>

raceVars == <<loading>>

agentVars == <<agent>>

(***************************************************************************)
(* Bounds                                                                  *)
(***************************************************************************)
MaxTools == 2

MaxArgLen == 3

SkillNames == {"skill_a", "skill_b"}

ToolNames == {"tool_a1", "tool_b1"}

\* The tool lists a Skill object may carry: any list of Tool objects, names
\* may repeat (neither the Skill protocol nor load_tools_from_yaml forbids it).
ToolLists == UNION {[1..n -> ToolNames] : n \in 0..MaxTools}

\* A Skill as the registry sees it: its name and the names of its tools, in order.
Skill == [name : SkillNames, tools : ToolLists]

EmptyMap == [k \in {} |-> ""]

MapPut(m, k, v) == [x \in (DOMAIN m) \cup {k} |-> IF x = k THEN v ELSE m[x]]

MapDel(m, k) == [x \in (DOMAIN m) \ {k} |-> m[x]]

Range(s) == {s[i] : i \in DOMAIN s}

(***************************************************************************)
(* SkillRegistry.register                                                  *)
(***************************************************************************)
\* registry.py:64-69, the conflict loop: the first tool whose name is indexed.
RECURSIVE FirstConflict(_, _, _)
FirstConflict(idx, tools, i) ==
    IF i > Len(tools) THEN 0
    ELSE IF tools[i] \in DOMAIN idx THEN i
    ELSE FirstConflict(idx, tools, i + 1)

\* registry.py:73-74, the indexing loop.
RECURSIVE IndexTools(_, _, _, _)
IndexTools(idx, tools, owner, i) ==
    IF i > Len(tools) THEN idx
    ELSE IndexTools(MapPut(idx, tools[i], owner), tools, owner, i + 1)

\* A register that checks and indexes in one pass: the tools listed before the
\* colliding one are already indexed when the error is raised.
RECURSIVE IndexUntilConflict(_, _, _, _)
IndexUntilConflict(idx, tools, owner, i) ==
    IF i > Len(tools) THEN idx
    ELSE IF tools[i] \in DOMAIN idx /\ idx[tools[i]] # owner THEN idx
    ELSE IndexUntilConflict(MapPut(idx, tools[i], owner), tools, owner, i + 1)

RegisterOnePass(sk, idx, s) ==
    IF s.name \in DOMAIN sk
    THEN [skills |-> sk, tool_index |-> idx, outcome |-> "DuplicateSkillError"]
    ELSE IF FirstConflict(idx, s.tools, 1) # 0
    THEN [skills |-> sk, tool_index |-> IndexUntilConflict(idx, s.tools, s.name, 1),
          outcome |-> "DuplicateToolError"]
    ELSE [skills |-> MapPut(sk, s.name, s.tools),
          tool_index |-> IndexTools(idx, s.tools, s.name, 1), outcome |-> "ok"]

\* A register that looks at the tools before it looks at the skill name.
RegisterToolsFirst(sk, idx, s) ==
    IF FirstConflict(idx, s.tools, 1) # 0
    THEN [skills |-> sk, tool_index |-> idx, outcome |-> "DuplicateToolError"]
    ELSE IF s.name \in DOMAIN sk
    THEN [skills |-> sk, tool_index |-> idx, outcome |-> "DuplicateSkillError"]
    ELSE [skills |-> MapPut(sk, s.name, s.tools),
          tool_index |-> IndexTools(idx, s.tools, s.name, 1), outcome |-> "ok"]

\* registry.py:50-74: the result of register(s) on the maps (sk, idx).
RegisterResult(sk, idx, s) ==
    IF s.name \in DOMAIN sk
    THEN [skills |-> sk, tool_index |-> idx, outcome |-> "DuplicateSkillError"]
    ELSE IF FirstConflict(idx, s.tools, 1) # 0
    THEN [skills |-> sk, tool_index |-> idx, outcome |-> "DuplicateToolError"]
    ELSE [skills |-> MapPut(sk, s.name, s.tools),
          tool_index |-> IndexTools(idx, s.tools, s.name, 1), outcome |-> "ok"]

(***************************************************************************)
(* SkillRegistry.unregister                                                *)
(***************************************************************************)
\* registry.py:91-92: `del self._tool_index[tool.name]` for each tool in turn;
\* del of a name that is not indexed raises KeyError and ends the loop there.
RECURSIVE DelTools(_, _, _)
DelTools(idx, tools, i) ==
    IF i > Len(tools) THEN [tool_index |-> idx, err |-> FALSE]
    ELSE IF tools[i] \notin DOMAIN idx THEN [tool_index |-> idx, err |-> TRUE]
    ELSE DelTools(MapDel(idx, tools[i]), tools, i + 1)

\* An unregister that forgets the skill but leaves its tools indexed.
UnregisterKeepIndex(sk, idx, n) ==
    IF n \notin DOMAIN sk
    THEN [skills |-> sk, tool_index |-> idx, outcome |-> "SkillNotFoundError"]
    ELSE [skills |-> MapDel(sk, n), tool_index |-> idx, outcome |-> "ok"]

\* registry.py:76-94: the result of unregister(n) on the maps (sk, idx).
UnregisterResult(sk, idx, n) ==
    IF n \notin DOMAIN sk
    THEN [skills |-> sk, tool_index |-> idx, outcome |-> "SkillNotFoundError"]
    ELSE LET d == DelTools(idx, sk[n], 1)
         IN  IF d.err
             THEN [skills |-> sk, tool_index |-> d.tool_index, outcome |-> "KeyError"]
             ELSE [skills |-> MapDel(sk, n), tool_index |-> d.tool_index,
                   outcome |-> "ok"]

(***************************************************************************)
(* Lookups                                                                 *)
(***************************************************************************)
\* base_skill.py:51-56 / configured_skill.py:31-36: position of the first tool
\* of the list that has the name, 0 for None.
RECURSIVE SkillGetTool(_, _, _)
SkillGetTool(tools, name, i) ==
    IF i > Len(tools) THEN 0
    ELSE IF tools[i] = name THEN i
    ELSE SkillGetTool(tools, name, i + 1)

NoValue == [skill |-> "", pos |-> 0]

\* registry.py:112-134. The returned Tool is named by its owner and position.
GetToolResult(sk, idx, name) ==
    IF name \notin DOMAIN idx
    THEN [outcome |-> "ToolNotFoundError", value |-> NoValue]
    ELSE IF idx[name] \notin DOMAIN sk
    THEN [outcome |-> "KeyError", value |-> NoValue]
    ELSE LET p == SkillGetTool(sk[idx[name]], name, 1)
         IN  IF p = 0
             THEN [outcome |-> "ToolNotFoundError", value |-> NoValue]
             ELSE [outcome |-> "ok", value |-> [skill |-> idx[name], pos |-> p]]

\* registry.py:136-152. The returned Skill is named by its name.
GetSkillForToolResult(sk, idx, name) ==
    IF name \notin DOMAIN idx
    THEN [outcome |-> "ToolNotFoundError", value |-> NoValue]
    ELSE IF idx[name] \notin DOMAIN sk
    THEN [outcome |-> "KeyError", value |-> NoValue]
    ELSE [outcome |-> "ok", value |-> [skill |-> idx[name], pos |-> 0]]

\* registry.py:197-205
skill_count == Cardinality(DOMAIN skills)

tool_count == Cardinality(DOMAIN tool_index)

(***************************************************************************)
(* Registry actions                                                        *)
(***************************************************************************)
Snapshot == [skills |-> skills, tool_index |-> tool_index]

NoSnapshot == [skills |-> EmptyMap, tool_index |-> EmptyMap]

NoRender == [err |-> "none", param |-> "", text |-> <<>>]

NoPayload == [keys |-> {}, error |-> "", param |-> "", query |-> <<>>,
              row_count |-> 0, rows |-> <<>>, truncated |-> FALSE]

\* No tool entry is being built.
NoBuildArgs == [config |-> [name |-> "", implementation |-> "absent",
                            query_template |-> FALSE, parameters |-> <<>>],
                connector |-> FALSE]

NotBuilt == [outcome |-> "pending", tool |-> "", function |-> "",
             fields |-> EmptyMap]

\* No Tool: nothing is held, nothing ran.
NoTool == [name |-> "", function |-> "", code |-> ""]

NoHeld == [obj |-> 0, pos |-> 0, tool |-> NoTool]

\* No loader call was made yet.
NoLoadCall == [op |-> "init", name |-> "", outcome |-> "ok", flag |-> FALSE,
               obj |-> 0, tool |-> ""]

\* None of discover_skills, load_all_skills, load_skill_metadata was called.
NoAllCall == [op |-> "init", name |-> "", flag |-> FALSE, outcome |-> "ok",
              result |-> <<>>, tool_error |-> "", tool_count |-> 0]

\* No load_skill is under way.
NoLoading == [name |-> "", pc |-> "idle", read |-> <<>>, source |-> EmptyMap]

\* No AgentResponse yet.
NoResponse == [content |-> "", finished |-> FALSE, returned |-> FALSE]

\* The model has not answered.
NoModelResponse == [content |-> "", tool_calls |-> <<>>]

\* No Agent.
NoAgent == [pc |-> "idle", max_iterations |-> 0, iterations |-> 0,
            invocations |-> 0, conversation |-> <<>>, pending |-> <<>>,
            tool_calls_made |-> <<>>, model_response |-> NoModelResponse,
            response |-> NoResponse]

\* A fresh SkillRegistry(); no tool is invoked while it is exercised.
InitRegistry ==
    /\ skills = EmptyMap
    /\ tool_index = EmptyMap
    /\ regCall = [op |-> "init", name |-> "", outcome |-> "ok", value |-> NoValue]
    /\ pre = NoSnapshot
    /\ tool = [kind |-> "yaml", template |-> <<>>, order |-> <<>>, limit |-> 100]
    /\ connector = [caps |-> {}, raises |-> FALSE, nrows |-> 0]
    /\ arguments = EmptyMap
    /\ pc = "ready"
    /\ rendered = NoRender
    /\ calls = <<>>
    /\ payload = NoPayload
    /\ raised = "none"
    /\ build_args = NoBuildArgs
    /\ built = NotBuilt
    /\ files = EmptyMap
    /\ clock = 0
    /\ loaded_skills = EmptyMap
    /\ skill_mtimes = EmptyMap
    /\ heap = EmptyMap
    /\ modules = EmptyMap
    /\ loadCall = NoLoadCall
    /\ held = NoHeld
    /\ ran = NoTool
    /\ disabled = {}
    /\ allCall = NoAllCall
    /\ loading = NoLoading
    /\ agent = NoAgent

Register(s) ==
    LET r == RegisterResult(skills, tool_index, s)
    IN  /\ skills' = r.skills
        /\ tool_index' = r.tool_index
        /\ regCall' = [op |-> "register", name |-> s.name,
                       outcome |-> r.outcome, value |-> NoValue]
        /\ pre' = IF r.outcome = "ok" THEN Snapshot ELSE NoSnapshot
        /\ UNCHANGED <<toolVars, buildVars, loadVars, dirVars, raceVars, agentVars>>

Unregister(n) ==
    LET r == UnregisterResult(skills, tool_index, n)
    IN  /\ skills' = r.skills
        /\ tool_index' = r.tool_index
        /\ regCall' = [op |-> "unregister", name |-> n,
                       outcome |-> r.outcome, value |-> NoValue]
        /\ pre' = NoSnapshot
        /\ UNCHANGED <<toolVars, buildVars, loadVars, dirVars, raceVars, agentVars>>

GetTool(t) ==
    LET r == GetToolResult(skills, tool_index, t)
    IN  /\ regCall' = [op |-> "get_tool", name |-> t,
                       outcome |-> r.outcome, value |-> r.value]
        /\ pre' = NoSnapshot
        /\ UNCHANGED <<skills, tool_index>>
        /\ UNCHANGED <<toolVars, buildVars, loadVars, dirVars, raceVars, agentVars>>

GetSkillForTool(t) ==
    LET r == GetSkillForToolResult(skills, tool_index, t)
    IN  /\ regCall' = [op |-> "get_skill_for_tool", name |-> t,
                       outcome |-> r.outcome, value |-> r.value]
        /\ pre' = NoSnapshot
        /\ UNCHANGED <<skills, tool_index>>
        /\ UNCHANGED <<toolVars, buildVars, loadVars, dirVars, raceVars, agentVars>>

RegNext ==
    \/ \E s \in Skill : Register(s)
    \/ \E n \in SkillNames : Unregister(n)
    \/ \E t \in ToolNames : GetTool(t)
    \/ \E t \in ToolNames : GetSkillForTool(t)

SpecRegistry == InitRegistry /\ [][RegNext]_vars

(***************************************************************************)
(* Properties of the registry                                              *)
(***************************************************************************)
CollidesWithIndex(s) == \E i \in DOMAIN s.tools : s.tools[i] \in DOMAIN tool_index

RegistryUnchanged ==
    /\ skills' = skills
    /\ tool_index' = tool_index
    /\ Cardinality(DOMAIN skills') = skill_count
    /\ Cardinality(DOMAIN tool_index') = tool_count

\* C1: register is all-or-nothing. A register call for a skill one of whose
\* tool names is already indexed raises DuplicateToolError (DuplicateSkillError
\* when the skill's name is registered too, see C2) and leaves the skill map and
\* the tool index exactly as they were: neither the skill nor any of its tools
\* (those listed before the colliding one included) is added.
C1_RegisterAllOrNothing ==
    [][\A s \in Skill :
         (Register(s) /\ CollidesWithIndex(s))
            => /\ regCall'.outcome = IF s.name \in DOMAIN skills
                                      THEN "DuplicateSkillError"
                                      ELSE "DuplicateToolError"
               /\ RegistryUnchanged]_vars

C1_Witness ==
    /\ regCall.op = "register"
    /\ regCall.outcome = "DuplicateToolError"
    /\ tool_count >= 1

\* C2: registering a skill whose name is already registered raises
\* DuplicateSkillError, also when its tools collide with indexed tools, and
\* the skill map, tool index, skill_count and tool_count are unchanged.
C2_DuplicateSkillFirst ==
    [][(regCall'.op = "register" /\ regCall'.name \in DOMAIN skills)
         => (regCall'.outcome = "DuplicateSkillError" /\ RegistryUnchanged)]_vars

C2_Witness ==
    /\ regCall.op = "register"
    /\ regCall.outcome = "DuplicateSkillError"
    /\ regCall.name \in DOMAIN skills
    /\ tool_count >= 1

\* Two positions of registered skills' tool lists hold the same tool name.
SharedToolName ==
    \E a, b \in DOMAIN skills : \E i \in DOMAIN skills[a], j \in DOMAIN skills[b] :
        /\ <<a, i>> # <<b, j>>
        /\ skills[a][i] = skills[b][j]

AllToolsIndexed ==
    \A a \in DOMAIN skills : \A i \in DOMAIN skills[a] :
        /\ skills[a][i] \in DOMAIN tool_index
        /\ tool_index[skills[a][i]] = a

\* C3: in every reachable registry state no two tools held by registered
\* skills share a name, be they tools of two skills or of one skill, and every
\* tool of every registered skill is in the tool index, mapped to its owner.
\* (Skill names are the keys of the skill map, so no two skills share one.)
C3_UniqueToolsAllIndexed == ~SharedToolName /\ AllToolsIndexed

\* C4: unregister undoes register. When register(s) was accepted in a state R
\* and the next call is unregister(s.name), that call completes without error
\* and the skill map and the tool index are those of R again.
C4_UnregisterInverse ==
    [][(regCall.op = "register" /\ regCall.outcome = "ok"
          /\ regCall'.op = "unregister" /\ regCall'.name = regCall.name)
        => (regCall'.outcome = "ok"
            /\ skills' = pre.skills /\ tool_index' = pre.tool_index)]_vars

\* C5: lookup routing is consistent. Every indexed tool name is routed to a
\* registered skill that has a tool of that name, get_tool returns that very
\* skill's tool, and both lookups raise ToolNotFoundError for every name that
\* is not indexed.
C5_LookupRouting ==
    \A t \in ToolNames :
        LET gs == GetSkillForToolResult(skills, tool_index, t)
            gt == GetToolResult(skills, tool_index, t)
        IN  IF t \in DOMAIN tool_index
            THEN /\ gs.outcome = "ok"
                 /\ gs.value.skill \in DOMAIN skills
                 /\ t \in Range(skills[gs.value.skill])
                 /\ gt.outcome = "ok"
                 /\ gt.value.skill = gs.value.skill
                 /\ skills[gt.value.skill][gt.value.pos] = t
            ELSE /\ gs.outcome = "ToolNotFoundError"
                 /\ gt.outcome = "ToolNotFoundError"

C5_Witness ==
    /\ regCall.op = "get_tool"
    /\ regCall.outcome = "ok"
    /\ skill_count = 2
    /\ regCall.value.skill = tool_index[regCall.name]


(***************************************************************************)
(* Query templates.  A text is a sequence of tokens: words, blanks, quotes *)
(* and punctuation are literal tokens; "{account}" and "{x}" are the       *)
(* placeholders {name}; "{}" is a placeholder without a name;              *)
(* "{%if x%}" ... "{%endif%}" delimit a conditional block.                 *)
(***************************************************************************)
ParamNames == {"account", "x"}

Placeholder(p) == IF p = "account" THEN "{account}" ELSE "{x}"

IfTag(p) == IF p = "account" THEN "{%if account%}" ELSE "{%if x%}"

EndTag == "{%endif%}"

IsWs(t) == t \in {" ", "\n"}

\* str.upper() / re.IGNORECASE on a token
Upper(t) ==
    CASE t = "drop" -> "DROP"
      [] t = "delete" -> "DELETE"
      [] t = "select" -> "SELECT"
      [] t = "with" -> "WITH"
      [] t = "union" -> "UNION"
      [] OTHER -> t

\* A Python value handed to a tool: kind is its type, text is str(value).
StrVal(s) == [kind |-> "str", text |-> s]

NoneVal == [kind |-> "none", text |-> <<"None">>]

FalseVal == [kind |-> "bool", text |-> <<"False">>]

ZeroVal == [kind |-> "int", text |-> <<"0">>]

\* kwargs.get(p) is not None
Given(kwargs, p) == p \in DOMAIN kwargs /\ kwargs[p].kind # "none"

(***************************************************************************)
(* QueryTemplate._parse_template                                           *)
(***************************************************************************)
\* query_template.py:34-35: the names n with "{n}" anywhere in the template.
Parameters(tpl) == {p \in ParamNames : \E i \in DOMAIN tpl : tpl[i] = Placeholder(p)}

\* Position of the first EndTag at or after i, 0 if there is none.
RECURSIVE FindEnd(_, _)
FindEnd(t, i) ==
    IF i > Len(t) THEN 0
    ELSE IF t[i] = EndTag THEN i
    ELSE FindEnd(t, i + 1)

IsIfTag(tok) == \E p \in ParamNames : tok = IfTag(p)

CondOf(tok) == CHOOSE p \in ParamNames : tok = IfTag(p)

\* query_template.py:38-39: re.findall of {% if p %}(.*?){% endif %}, the
\* (condition, body) pairs left to right, matches not overlapping.
RECURSIVE OptionalBlocks(_, _)
OptionalBlocks(t, i) ==
    IF i > Len(t) THEN <<>>
    ELSE IF IsIfTag(t[i]) /\ FindEnd(t, i + 1) # 0
    THEN LET e == FindEnd(t, i + 1)
         IN  <<[cond |-> CondOf(t[i]), body |-> SubSeq(t, i + 1, e - 1)]>>
                 \o OptionalBlocks(t, e + 1)
    ELSE OptionalBlocks(t, i + 1)

(***************************************************************************)
(* QueryTemplate.render                                                    *)
(***************************************************************************)
\* str.format(**kwargs) on a text (query_template.py:61, yaml_tools.py:319):
\* a named field is replaced by str(value), KeyError when the name is not a
\* key (the field of a block delimiter is never one), IndexError for "{}".
RECURSIVE Format(_, _)
Format(t, kwargs) ==
    IF t = <<>> THEN [err |-> "none", param |-> "", text |-> <<>>]
    ELSE LET h == Head(t)
             r == Format(Tail(t), kwargs)
             named == \E p \in ParamNames : h = Placeholder(p)
             name == CHOOSE p \in ParamNames : h = Placeholder(p)
         IN  IF named /\ name \notin DOMAIN kwargs
             THEN [err |-> "KeyError", param |-> name, text |-> <<>>]
             ELSE IF IsIfTag(h) \/ h = EndTag
             THEN [err |-> "KeyError", param |-> "", text |-> <<>>]
             ELSE IF h = "{}"
             THEN [err |-> "IndexError", param |-> "", text |-> <<>>]
             ELSE IF r.err # "none" THEN r
             ELSE [err |-> "none", param |-> "",
                   text |-> (IF named THEN kwargs[name].text ELSE <<h>>) \o r.text]

\* The tokens that are words; all but "n", "v" and "0" begin with a letter
\* that is no escape of a replacement template.
Words == {"A", "B", "n", "v", "0", "drop", "DROP", "DELETE", "select", "SELECT",
          "with", "WITH", "union", "UNION", "ledger", "None", "False", "NULL"}

\* re.sub parses its replacement as a template (query_template.py:62 hands
\* it the formatted body): a backslash followed by n is a newline, by v a
\* vertical tab, by 0 a NUL, by a backslash one backslash; followed by
\* another letter or by nothing it is re.error; before anything else it stays.
RECURSIVE ExpandRepl(_)
ExpandRepl(rep) ==
    IF rep = <<>> THEN [err |-> "none", param |-> "", text |-> <<>>]
    ELSE IF Head(rep) # "\\"
    THEN LET r == ExpandRepl(Tail(rep))
         IN  IF r.err # "none" THEN r ELSE [r EXCEPT !.text = <<Head(rep)>> \o @]
    ELSE IF Len(rep) = 1 THEN [err |-> "ReError", param |-> "", text |-> <<>>]
    ELSE LET c == rep[2]
             r == ExpandRepl(Tail(Tail(rep)))
             e == CASE c = "n" -> <<"\n">>
                    [] c = "v" -> <<"<VT>">>
                    [] c = "0" -> <<"<NUL>">>
                    [] c = "\\" -> <<"\\">>
                    [] OTHER -> <<"\\", c>>
         IN  IF c \in Words \ {"n", "v", "0"}
             THEN [err |-> "ReError", param |-> "", text |-> <<>>]
             ELSE IF r.err # "none" THEN r
             ELSE [r EXCEPT !.text = e \o @]

\* re.sub of every block with condition p in text t by the text rep
\* (query_template.py:57, 62, 65), rep being the expanded replacement.
RECURSIVE SubBlocks(_, _, _)
SubBlocks(t, p, rep) ==
    IF t = <<>> THEN <<>>
    ELSE IF Head(t) = IfTag(p) /\ FindEnd(t, 2) # 0
    THEN rep \o SubBlocks(SubSeq(t, FindEnd(t, 2) + 1, Len(t)), p, rep)
    ELSE <<Head(t)>> \o SubBlocks(Tail(t), p, rep)

\* query_template.py:56-65, the loop over _optional_blocks from block i on.
RECURSIVE RenderBlocks(_, _, _, _)
RenderBlocks(result, blocks, kwargs, i) ==
    IF i > Len(blocks) THEN [err |-> "none", param |-> "", text |-> result]
    ELSE IF Given(kwargs, blocks[i].cond)
    THEN LET f == Format(blocks[i].body, kwargs)
             e == ExpandRepl(f.text)
         IN  IF f.err # "none" THEN f
             ELSE IF e.err # "none" THEN e
             ELSE RenderBlocks(SubBlocks(result, blocks[i].cond, e.text),
                               blocks, kwargs, i + 1)
    ELSE RenderBlocks(SubBlocks(result, blocks[i].cond, <<>>), blocks, kwargs, i + 1)

\* value.replace("'", "''")
RECURSIVE EscapeQuotes(_)
EscapeQuotes(s) ==
    IF s = <<>> THEN <<>>
    ELSE (IF Head(s) = "'" THEN <<"'", "'">> ELSE <<Head(s)>>) \o EscapeQuotes(Tail(s))

\* query_template.py:73-84: value = kwargs.get(param, "") and its literal.
Literal(kwargs, p) ==
    IF p \notin DOMAIN kwargs THEN <<>>
    ELSE IF kwargs[p].kind = "str" THEN EscapeQuotes(kwargs[p].text)
    ELSE IF kwargs[p].kind = "bool"
    THEN (IF kwargs[p].text = <<"True">> THEN <<"true">> ELSE <<"false">>)
    ELSE IF kwargs[p].kind = "none" THEN <<"NULL">>
    ELSE kwargs[p].text

\* result.replace(placeholder, str(value))
RECURSIVE Replace(_, _, _)
Replace(t, tok, rep) ==
    IF t = <<>> THEN <<>>
    ELSE (IF Head(t) = tok THEN rep ELSE <<Head(t)>>) \o Replace(Tail(t), tok, rep)

\* query_template.py:68-84, the loop over _parameters in the order `order`.
RECURSIVE Substitute(_, _, _, _, _)
Substitute(result, order, conds, kwargs, i) ==
    IF i > Len(order) THEN [err |-> "none", param |-> "", text |-> result]
    ELSE IF order[i] \notin DOMAIN kwargs /\ order[i] \notin conds
    THEN [err |-> "Missing", param |-> order[i], text |-> <<>>]
    ELSE Substitute(Replace(result, Placeholder(order[i]), Literal(kwargs, order[i])),
                    order, conds, kwargs, i + 1)

\* Last position of the run of blanks that starts at i.
RECURSIVE WsRunEnd(_, _)
WsRunEnd(t, i) == IF i < Len(t) /\ IsWs(t[i + 1]) THEN WsRunEnd(t, i + 1) ELSE i

\* Last newline in positions i..j, 0 if none.
RECURSIVE LastNewline(_, _, _)
LastNewline(t, i, j) ==
    IF j < i THEN 0 ELSE IF t[j] = "\n" THEN j ELSE LastNewline(t, i, j - 1)

\* re.sub(r"\n\s*\n", "\n", result), query_template.py:87
RECURSIVE CollapseBlankLines(_, _)
CollapseBlankLines(t, i) ==
    IF i > Len(t) THEN <<>>
    ELSE IF t[i] = "\n" /\ LastNewline(t, i + 1, WsRunEnd(t, i)) # 0
    THEN <<"\n">> \o CollapseBlankLines(t, LastNewline(t, i + 1, WsRunEnd(t, i)) + 1)
    ELSE <<t[i]>> \o CollapseBlankLines(t, i + 1)

\* str.strip()
RECURSIVE Strip(_)
Strip(t) ==
    IF t = <<>> THEN <<>>
    ELSE IF IsWs(Head(t)) THEN Strip(Tail(t))
    ELSE IF IsWs(t[Len(t)]) THEN Strip(SubSeq(t, 1, Len(t) - 1))
    ELSE t

BlockConds(blocks) == {blocks[i].cond : i \in DOMAIN blocks}

\* query_template.py:41-90.  order is the order of the list _parameters,
\* list(set(...)) of line 35.
Render(tpl, order, kwargs) ==
    LET blocks == OptionalBlocks(tpl, 1)
        b == RenderBlocks(tpl, blocks, kwargs, 1)
        s == Substitute(b.text, order, BlockConds(blocks), kwargs, 1)
    IN  IF b.err # "none" THEN b
        ELSE IF s.err # "none" THEN s
        ELSE [err |-> "none", param |-> "",
              text |-> Strip(CollapseBlankLines(s.text, 1))]


(***************************************************************************)
(* SecureQueryTemplate                                                     *)
(***************************************************************************)
\* First position at or after i that holds no blank.
RECURSIVE SkipWs(_, _)
SkipWs(t, i) == IF i <= Len(t) /\ IsWs(t[i]) THEN SkipWs(t, i + 1) ELSE i

DdlDml == {"DROP", "DELETE", "UPDATE", "INSERT", "ALTER", "CREATE", "TRUNCATE"}

\* query_template.py:107-120, re.search of one of DANGEROUS_PATTERNS with
\* re.IGNORECASE: ;\s*KEYWORD\s+  --  /*  UNION\s+SELECT  INTO\s+OUTFILE|DUMPFILE
MatchesDangerous(t) ==
    \E i \in DOMAIN t :
        \/ /\ t[i] = ";"
           /\ LET j == SkipWs(t, i + 1)
              IN  j < Len(t) /\ Upper(t[j]) \in DdlDml /\ IsWs(t[j + 1])
        \/ t[i] \in {"--", "/*"}
        \/ /\ Upper(t[i]) \in {"UNION", "INTO"}
           /\ i < Len(t)
           /\ IsWs(t[i + 1])
           /\ LET j == SkipWs(t, i + 1)
              IN  /\ j <= Len(t)
                  /\ IF Upper(t[i]) = "UNION" THEN Upper(t[j]) = "SELECT"
                     ELSE Upper(t[j]) \in {"OUTFILE", "DUMPFILE"}

\* The order in which the caller's keyword arguments are iterated.
KwargsOrder == <<"account", "x">>

\* query_template.py:125-127 and 137-141: the first string argument, in the
\* order of kwargs.items(), whose value matches a pattern; "" if none does.
RECURSIVE FirstUnsafe(_, _)
FirstUnsafe(kwargs, i) ==
    IF i > Len(KwargsOrder) THEN ""
    ELSE IF /\ KwargsOrder[i] \in DOMAIN kwargs
            /\ kwargs[KwargsOrder[i]].kind = "str"
            /\ MatchesDangerous(kwargs[KwargsOrder[i]].text)
    THEN KwargsOrder[i]
    ELSE FirstUnsafe(kwargs, i + 1)

StartsWithSelect(q) ==
    LET u == Strip(q) IN u # <<>> /\ Upper(u[1]) \in {"SELECT", "WITH"}

\* A _validate_query that only scans for the patterns.
ValidateQueryNoPrefix(q) ==
    IF MatchesDangerous(q) THEN "UnsafeQuery" ELSE "none"

\* query_template.py:143-153
ValidateQuery(q) ==
    IF ~StartsWithSelect(q) THEN "NotSelect"
    ELSE IF MatchesDangerous(q) THEN "UnsafeQuery"
    ELSE "none"

\* A secure render that does not look at the argument values first.
SecureRenderNoParamCheck(tpl, order, kwargs) ==
    LET r == Render(tpl, order, kwargs)
    IN  IF r.err # "none" THEN r
        ELSE IF ValidateQuery(r.text) # "none"
        THEN [err |-> ValidateQuery(r.text), param |-> "", text |-> <<>>]
        ELSE r

\* query_template.py:122-135
SecureRender(tpl, order, kwargs) ==
    IF FirstUnsafe(kwargs, 1) # ""
    THEN [err |-> "UnsafeValue", param |-> FirstUnsafe(kwargs, 1), text |-> <<>>]
    ELSE LET r == Render(tpl, order, kwargs)
         IN  IF r.err # "none" THEN r
             ELSE IF ValidateQuery(r.text) # "none"
             THEN [err |-> ValidateQuery(r.text), param |-> "", text |-> <<>>]
             ELSE r


(***************************************************************************)
(* Connector and the callables of query-template tools                     *)
(***************************************************************************)
\* QueryTemplate.result_limit (query_template.py:20), also the literal of
\* yaml_tools.py:335-336.
result_limit == 100

Rows(n) == [i \in 1..n |-> i]

Min(a, b) == IF a < b THEN a ELSE b

\* A truncation that keeps the last rows instead of the first.
TruncateTail(rows, limit) ==
    SubSeq(rows, Len(rows) - Min(Len(rows), limit) + 1, Len(rows))

\* results[:limit]
Truncate(rows, limit) == SubSeq(rows, 1, Min(Len(rows), limit))

\* query_template.py:188-193 / yaml_tools.py:325-330: the method used to run
\* a query on the connector, "" when it has neither.
QueryMethod(conn) ==
    IF "execute_sql" \in conn.caps THEN "execute_sql"
    ELSE IF "execute" \in conn.caps THEN "execute"
    ELSE ""

\* A dispatch that runs the query on every method the connector has.
ConnectorCallsEvery(conn, query) ==
    (IF "execute_sql" \in conn.caps
     THEN <<[method |-> "execute_sql", query |-> query]>> ELSE <<>>)
    \o (IF "execute" \in conn.caps
        THEN <<[method |-> "execute", query |-> query]>> ELSE <<>>)

\* The calls the connector receives when the callable runs `query` on it.
ConnectorCalls(conn, query) ==
    IF QueryMethod(conn) = "" THEN <<>>
    ELSE <<[method |-> QueryMethod(conn), query |-> query]>>

\* query_template.py:167-211.  render is the outcome of template.render.
ExecutorExecute(render, conn, limit) ==
    IF render.err # "none"
    THEN [payload |-> [NoPayload EXCEPT !.keys = {"error", "rows"},
                                        !.error = render.err,
                                        !.param = render.param],
          calls |-> <<>>, raised |-> "none"]
    ELSE IF QueryMethod(conn) = ""
    THEN [payload |-> [NoPayload EXCEPT !.keys = {"error", "rows"},
                                        !.error = "NoQueryCapability"],
          calls |-> <<>>, raised |-> "none"]
    ELSE IF conn.raises
    THEN [payload |-> [NoPayload EXCEPT !.keys = {"error", "query", "rows"},
                                        !.error = "ConnectorError",
                                        !.query = render.text],
          calls |-> ConnectorCalls(conn, render.text), raised |-> "none"]
    ELSE [payload |-> [NoPayload EXCEPT
                         !.keys = {"query", "row_count", "rows", "truncated"},
                         !.query = render.text,
                         !.row_count = Len(Truncate(Rows(conn.nrows), limit)),
                         !.rows = Truncate(Rows(conn.nrows), limit),
                         !.truncated = (conn.nrows > limit)],
          calls |-> ConnectorCalls(conn, render.text), raised |-> "none"]

\* yaml_tools.py:315-339, the callable _build_tool gives a tool that has a
\* query_template.  Only KeyError is caught around str.format.
ExecuteQuery(tpl, conn, kwargs) ==
    LET f == Format(tpl, kwargs)
    IN  IF f.err = "KeyError"
        THEN [payload |-> [NoPayload EXCEPT !.keys = {"error"},
                                            !.error = "Missing",
                                            !.param = f.param],
              calls |-> <<>>, raised |-> "none"]
        ELSE IF f.err # "none"
        THEN [payload |-> NoPayload, calls |-> <<>>, raised |-> f.err]
        ELSE IF QueryMethod(conn) = ""
        THEN [payload |-> [NoPayload EXCEPT !.keys = {"error"},
                                            !.error = "NoQueryCapability"],
              calls |-> <<>>, raised |-> "none"]
        ELSE IF conn.raises
        THEN [payload |-> [NoPayload EXCEPT !.keys = {"error", "query"},
                                            !.error = "ConnectorError",
                                            !.query = f.text],
              calls |-> ConnectorCalls(conn, f.text), raised |-> "none"]
        ELSE [payload |-> [NoPayload EXCEPT
                             !.keys = {"query", "row_count", "rows", "truncated"},
                             !.query = f.text,
                             !.row_count = conn.nrows,
                             !.rows = Truncate(Rows(conn.nrows), result_limit),
                             !.truncated = (conn.nrows > result_limit)],
              calls |-> ConnectorCalls(conn, f.text), raised |-> "none"]

\* What the render step of a tool's callable yields: str.format for the
\* callable of yaml_tools._build_query_function ("yaml"), the template class
\* chosen at query_template.py:235 for build_query_function (secure or not).
RenderOf(t, kwargs) ==
    IF t.kind = "yaml" THEN Format(t.template, kwargs)
    ELSE IF t.kind = "secure" THEN SecureRender(t.template, t.order, kwargs)
    ELSE Render(t.template, t.order, kwargs)

\* The row limit in force: the literal 100 of yaml_tools.py:335-336, the
\* template's result_limit (query_template.py:196-197, set at 239) otherwise.
RowLimit(t) == IF t.kind = "yaml" THEN result_limit ELSE t.limit

\* The callable of the tool: yaml_tools.py:315 or query_template.py:243-245.
Callable(t, conn, kwargs) ==
    IF t.kind = "yaml" THEN ExecuteQuery(t.template, conn, kwargs)
    ELSE ExecutorExecute(RenderOf(t, kwargs), conn, t.limit)


(***************************************************************************)
(* Invocation of a query-template tool                                     *)
(***************************************************************************)
\* The manifest example: SELECT * FROM ledger WHERE account = '{account}'
LedgerTemplate == <<"SELECT", " ", "ledger", " ", "'", "{account}", "'">>

\* The template of one block: {% if x %}A{x}B{% endif %}
IfXTemplate == <<"{%if x%}", "A", "{x}", "B", "{%endif%}">>

Templates == {
    LedgerTemplate,
    <<"{account}", " ", "ledger">>,
    <<"select", ";", "{account}", " ", "ledger">>,
    <<"SELECT", " ", "ledger", "{%if x%}", " ", "{account}", "{%endif%}">>,
    <<"SELECT", " ", "{}", " ", "{account}">>,
    IfXTemplate,
    <<"SELECT", " ", "{account}", "{%if x%}", " ", "{account}", "{%endif%}">>,
    <<"\n", "WITH", " ", "{x}", "\n", " ", "\n", "{account}", " ">> }

\* The orders list(set(...)) can give the parameter list.
Orders(S) == {o \in [1..Cardinality(S) -> S] : Range(o) = S}

\* The tools made from template t with the default row limit.
ToolsOf(t) == {[kind |-> k, template |-> t, order |-> o, limit |-> result_limit] :
                  k \in {"yaml", "secure", "plain"}, o \in Orders(Parameters(t))}

Connectors == {
    [caps |-> {"execute_sql"}, raises |-> FALSE, nrows |-> 1],
    [caps |-> {"execute_sql", "execute"}, raises |-> FALSE, nrows |-> result_limit + 1],
    [caps |-> {"execute"}, raises |-> FALSE, nrows |-> 0],
    [caps |-> {"execute_sql"}, raises |-> TRUE, nrows |-> 0],
    [caps |-> {}, raises |-> FALSE, nrows |-> 0] }

ArgTokens == {"A", "'", ";", " ", "drop"}

\* The string values of the argument account.
AccountValues ==
    {StrVal(s) : s \in UNION {[1..n -> ArgTokens] : n \in 0..MaxArgLen}}
        \cup {StrVal(<<"DELETE">>), StrVal(<<"--">>)}

\* The values of the argument x; the last one is a backslash and an n.
XValues == {NoneVal, FalseVal, ZeroVal, StrVal(<<"v">>), StrVal(<<"\\", "n">>)}

Kwargs ==
    {EmptyMap}
        \cup {[p \in {"account"} |-> a] : a \in AccountValues}
        \cup {[p \in {"x"} |-> v] : v \in XValues}
        \cup {[p \in {"account", "x"} |-> IF p = "account" THEN a ELSE v] :
                 a \in AccountValues, v \in XValues}

\* A tool built from a template and bound to a connector, about to be
\* invoked with some keyword arguments; the registry stays empty.
InitTool ==
    /\ skills = EmptyMap
    /\ tool_index = EmptyMap
    /\ regCall = [op |-> "init", name |-> "", outcome |-> "ok", value |-> NoValue]
    /\ pre = NoSnapshot
    /\ \E t \in Templates : tool \in ToolsOf(t)
    /\ connector \in Connectors
    /\ arguments \in Kwargs
    /\ pc = "ready"
    /\ rendered = NoRender
    /\ calls = <<>>
    /\ payload = NoPayload
    /\ raised = "none"
    /\ build_args = NoBuildArgs
    /\ built = NotBuilt
    /\ files = EmptyMap
    /\ clock = 0
    /\ loaded_skills = EmptyMap
    /\ skill_mtimes = EmptyMap
    /\ heap = EmptyMap
    /\ modules = EmptyMap
    /\ loadCall = NoLoadCall
    /\ held = NoHeld
    /\ ran = NoTool
    /\ disabled = {}
    /\ allCall = NoAllCall
    /\ loading = NoLoading
    /\ agent = NoAgent

Invoke ==
    LET r == Callable(tool, connector, arguments)
    IN  /\ pc = "ready"
        /\ pc' = "done"
        /\ rendered' = RenderOf(tool, arguments)
        /\ calls' = r.calls
        /\ payload' = r.payload
        /\ raised' = r.raised
        /\ UNCHANGED <<tool, connector, arguments>>

\* yaml_tools.py:315-339: the tool _build_tool made from a query_template.
InvokeExecuteQuery == tool.kind = "yaml" /\ Invoke /\ UNCHANGED <<regVars, buildVars, loadVars, dirVars, raceVars, agentVars>>

\* query_template.py:243-245: the function build_query_function made.
InvokeQueryFunction == tool.kind # "yaml" /\ Invoke /\ UNCHANGED <<regVars, buildVars, loadVars, dirVars, raceVars, agentVars>>

ToolNext == InvokeExecuteQuery \/ InvokeQueryFunction

SpecTool == InitTool /\ [][ToolNext]_vars

(***************************************************************************)
(* Invocations that differ in the row limit and in the size of the result  *)
(***************************************************************************)
MaxRows == 3

MaxLimit == 2

\* The limits a tool is built with (build_query_function's result_limit).
Limits == (1..MaxLimit) \cup {result_limit}

\* The sizes of the connector's result: small ones and those around 100.
ResultSizes == (0..MaxRows) \cup {result_limit - 1, result_limit, result_limit + 1}

\* The ledger tool of each kind, built with some row limit, bound to a
\* connector whose query returns some number of rows (or raises), about to
\* be invoked with an account.
InitRows ==
    /\ skills = EmptyMap
    /\ tool_index = EmptyMap
    /\ regCall = [op |-> "init", name |-> "", outcome |-> "ok", value |-> NoValue]
    /\ pre = NoSnapshot
    /\ tool \in [kind : {"yaml", "secure", "plain"}, template : {LedgerTemplate},
                 order : {<<"account">>}, limit : Limits]
    /\ connector \in [caps : {{"execute_sql"}, {"execute"}}, raises : BOOLEAN,
                      nrows : ResultSizes]
    /\ arguments \in {[p \in {"account"} |-> StrVal(<<"A">>)]}
    /\ pc = "ready"
    /\ rendered = NoRender
    /\ calls = <<>>
    /\ payload = NoPayload
    /\ raised = "none"
    /\ build_args = NoBuildArgs
    /\ built = NotBuilt
    /\ files = EmptyMap
    /\ clock = 0
    /\ loaded_skills = EmptyMap
    /\ skill_mtimes = EmptyMap
    /\ heap = EmptyMap
    /\ modules = EmptyMap
    /\ loadCall = NoLoadCall
    /\ held = NoHeld
    /\ ran = NoTool
    /\ disabled = {}
    /\ allCall = NoAllCall
    /\ loading = NoLoading
    /\ agent = NoAgent

SpecRows == InitRows /\ [][ToolNext]_vars


(***************************************************************************)
(* Properties of query-template tools                                      *)
(***************************************************************************)
\* The string arguments of the invocation whose value matches the blocklist.
FlaggedArgs ==
    {p \in DOMAIN arguments :
        arguments[p].kind = "str" /\ MatchesDangerous(arguments[p].text)}

ConnectorUsable == QueryMethod(connector) # "" /\ ~connector.raises

\* C6: a tool the Tool Builder made from a query_template, invoked with a
\* string argument that contains an injection pattern, fails before the
\* connector is reached: no call arrives at the connector and the returned
\* error names the offending parameter.  (Stated for the invocations in which
\* nothing else stops the tool: its template can be filled from the arguments
\* and the connector has a working query method.)
C6_BuiltToolRejectsInjection ==
    (pc = "done" /\ tool.kind = "yaml" /\ FlaggedArgs # {}
       /\ rendered.err = "none" /\ ConnectorUsable)
        => /\ calls = <<>>
           /\ raised = "none"
           /\ "error" \in payload.keys
           /\ payload.param \in FlaggedArgs

\* C7: through QueryTemplateExecutor with the secure template, an invocation
\* one of whose string arguments matches the blocklist (in any letter case)
\* fails in the argument scan, before any substitution, with an error naming
\* such an argument, and the connector receives no call.
C7_SecureRejectsFlaggedValue ==
    (pc = "done" /\ tool.kind = "secure" /\ FlaggedArgs # {})
        => /\ rendered.err = "UnsafeValue"
           /\ rendered.param \in FlaggedArgs
           /\ calls = <<>>
           /\ raised = "none"
           /\ payload.keys = {"error", "rows"}

C7_Witness ==
    /\ pc = "done"
    /\ tool.kind = "secure"
    /\ tool.template = LedgerTemplate
    /\ "account" \in DOMAIN arguments
    /\ arguments["account"].text = <<";", "drop", " ">>
    /\ ConnectorUsable
    /\ calls = <<>>
    /\ payload.error = "UnsafeValue"

\* The text the template yields when no safety check is made.
UncheckedRender == Render(tool.template, tool.order, arguments)

\* C8: the secure render returns a text only if the text, trimmed and without
\* regard to case, begins with SELECT or WITH and matches no blocklist pattern;
\* a rendered text that begins otherwise is rejected although no argument was
\* flagged, and the connector receives no call.
C8_SecureReturnsOnlySelect ==
    (pc = "done" /\ tool.kind = "secure")
        => /\ rendered.err = "none"
                => /\ StartsWithSelect(rendered.text)
                   /\ ~MatchesDangerous(rendered.text)
           /\ (UncheckedRender.err = "none" /\ ~StartsWithSelect(UncheckedRender.text))
                => /\ rendered.err \in {"NotSelect", "UnsafeValue"}
                   /\ FlaggedArgs = {} => rendered.err = "NotSelect"
                   /\ calls = <<>>
                   /\ "error" \in payload.keys

C8_Witness ==
    /\ pc = "done"
    /\ tool.kind = "secure"
    /\ FlaggedArgs = {}
    /\ UncheckedRender.err = "none"
    /\ UncheckedRender.text = <<"DELETE", " ", "ledger">>
    /\ ConnectorUsable
    /\ rendered.err = "NotSelect"
    /\ calls = <<>>

\* C9: on a successful invocation the connector's query method was called
\* exactly once, after the render step had succeeded (for the secure template:
\* no argument flagged, SELECT/WITH prefix, no blocklist match), with exactly
\* the rendered text, and the payload's 'query' is that text.  The connector
\* is never called when the render step failed.  For the ledger template and
\* account = "A" the text is SELECT ledger 'A'.
C9_ConnectorCalledOnceWithRenderedText ==
    /\ (pc = "done" /\ raised = "none" /\ "error" \notin payload.keys)
          => /\ Len(calls) = 1
             /\ rendered.err = "none"
             /\ calls[1].query = rendered.text
             /\ calls[1].method = QueryMethod(connector)
             /\ "query" \in payload.keys
             /\ payload.query = rendered.text
             /\ tool.kind = "secure"
                  => /\ FlaggedArgs = {}
                     /\ StartsWithSelect(rendered.text)
                     /\ ~MatchesDangerous(rendered.text)
             /\ (tool.template = LedgerTemplate
                   /\ arguments = [p \in {"account"} |-> StrVal(<<"A">>)])
                  => calls[1].query = <<"SELECT", " ", "ledger", " ", "'", "A", "'">>
    /\ (pc = "done" /\ calls # <<>>)
          => /\ rendered.err = "none"
             /\ \A i \in DOMAIN calls : calls[i].query = rendered.text

C9_Witness ==
    /\ pc = "done"
    /\ tool.kind = "yaml"
    /\ tool.template = LedgerTemplate
    /\ arguments = [p \in {"account"} |-> StrVal(<<"A">>)]
    /\ connector.caps = {"execute_sql", "execute"}
    /\ payload.keys = {"query", "row_count", "rows", "truncated"}
    /\ calls = <<[method |-> "execute_sql",
                  query |-> <<"SELECT", " ", "ledger", " ", "'", "A", "'">>]>>

\* C10: the callable of a query-template tool never raises for a failure of
\* rendering or of execution: it returns, and when the render step failed,
\* the connector has no query method or the connector raised, the returned
\* payload has an 'error' entry.
C10_CallableNeverRaises ==
    pc = "done"
        => /\ raised = "none"
           /\ (rendered.err # "none" \/ QueryMethod(connector) = "" \/ connector.raises)
                => "error" \in payload.keys


(***************************************************************************)
(* Properties of template rendering                                        *)
(***************************************************************************)
\* The template with its conditional blocks resolved against the arguments
\* and nothing substituted: a block whose condition is absent or null is
\* gone, of any other block the body stands in its place.
RECURSIVE BlocksResolved(_, _, _)
BlocksResolved(t, kwargs, i) ==
    IF i > Len(t) THEN <<>>
    ELSE IF IsIfTag(t[i]) /\ FindEnd(t, i + 1) # 0
    THEN (IF Given(kwargs, CondOf(t[i]))
          THEN SubSeq(t, i + 1, FindEnd(t, i + 1) - 1) ELSE <<>>)
             \o BlocksResolved(t, kwargs, FindEnd(t, i + 1) + 1)
    ELSE <<t[i]>> \o BlocksResolved(t, kwargs, i + 1)

\* The placeholders of the tool's template that stand in removed blocks only.
UsedOnlyInRemovedBlocks ==
    {p \in Parameters(tool.template) :
        Placeholder(p) \notin Range(BlocksResolved(tool.template, arguments, 1))}

\* C11: a placeholder that occurs only inside conditional blocks that are
\* removed (condition absent or null) is not required: render does not fail
\* with a missing-parameter error naming it, whether or not its name is the
\* block's condition parameter.
C11_RemovedBlockPlaceholderNotRequired ==
    (pc = "done" /\ tool.kind # "yaml")
        => ~(rendered.err = "Missing" /\ rendered.param \in UsedOnlyInRemovedBlocks)

\* A block body with each {param} that is an argument replaced by the
\* argument's text as given.
RECURSIVE BodyFromArguments(_, _)
BodyFromArguments(body, kwargs) ==
    IF body = <<>> THEN <<>>
    ELSE (IF \E p \in DOMAIN kwargs : Head(body) = Placeholder(p)
          THEN kwargs[CHOOSE p \in DOMAIN kwargs : Head(body) = Placeholder(p)].text
          ELSE <<Head(body)>>)
             \o BodyFromArguments(Tail(body), kwargs)

\* The template after step 1 as the contract words it: each block, taken by
\* itself, is gone or is its own body filled from the arguments.
RECURSIVE ExpectedBlocks(_, _, _)
ExpectedBlocks(t, kwargs, i) ==
    IF i > Len(t) THEN <<>>
    ELSE IF IsIfTag(t[i]) /\ FindEnd(t, i + 1) # 0
    THEN (IF Given(kwargs, CondOf(t[i]))
          THEN BodyFromArguments(SubSeq(t, i + 1, FindEnd(t, i + 1) - 1), kwargs)
          ELSE <<>>)
             \o ExpectedBlocks(t, kwargs, FindEnd(t, i + 1) + 1)
    ELSE <<t[i]>> \o ExpectedBlocks(t, kwargs, i + 1)

\* No two blocks of the template have the same condition parameter.
DistinctConditions(tpl) ==
    LET blocks == OptionalBlocks(tpl, 1)
    IN  \A i, j \in DOMAIN blocks : blocks[i].cond = blocks[j].cond => i = j

\* Every placeholder of the template is an argument or is the condition
\* parameter of a block, so that render asks for no parameter.
NothingMissing ==
    Parameters(tool.template)
        \subseteq (DOMAIN arguments \cup BlockConds(OptionalBlocks(tool.template, 1)))

\* C12: every conditional block whose condition is absent or null leaves
\* neither delimiters nor body in the rendered text (a template that is one
\* such block renders to the empty text), and every block whose condition is
\* present and not null, falsy values included, is replaced by its body with
\* the body's {param} filled from the arguments: the rendered text is what
\* steps 2 and 3 make of the template with its blocks so resolved, and
\* {% if x %}A{x}B{% endif %} renders to AvB for x = "v".  (Stated for
\* templates whose blocks have distinct conditions, invoked with no
\* parameter missing.)
C12_BlocksRemovedOrFilled ==
    (pc = "done" /\ tool.kind = "plain" /\ OptionalBlocks(tool.template, 1) # <<>>
       /\ DistinctConditions(tool.template) /\ NothingMissing)
        => /\ rendered.err = "none"
           /\ rendered.text =
                Strip(CollapseBlankLines(
                    Substitute(ExpectedBlocks(tool.template, arguments, 1), tool.order,
                               BlockConds(OptionalBlocks(tool.template, 1)),
                               arguments, 1).text, 1))
           /\ (tool.template = IfXTemplate /\ ~Given(arguments, "x"))
                => rendered.text = <<>>
           /\ (tool.template = IfXTemplate /\ "x" \in DOMAIN arguments
                 /\ arguments["x"] = StrVal(<<"v">>))
                => rendered.text = <<"A", "v", "B">>

\* The parameters that render has to report: a placeholder of theirs stands
\* outside every conditional block, they are no condition parameter, and
\* they are absent from the arguments.
MissingOutside ==
    {p \in ParamNames :
        /\ Placeholder(p) \in Range(BlocksResolved(tool.template, EmptyMap, 1))
        /\ p \notin BlockConds(OptionalBlocks(tool.template, 1))
        /\ p \notin DOMAIN arguments}

\* C13: when a placeholder {p} stands outside every conditional block, p is
\* no condition parameter and p is absent from the arguments, render fails
\* with the missing-parameter error, naming such a p, and returns no text;
\* the tool returns an error payload and the connector receives no call.
\* (For the secure template: when no argument value is flagged, which is
\* tested first.)
C13_MissingParameterReported ==
    (pc = "done" /\ MissingOutside # {}
       /\ (tool.kind = "plain" \/ (tool.kind = "secure" /\ FlaggedArgs = {})))
        => /\ rendered.err = "Missing"
           /\ rendered.param \in MissingOutside
           /\ rendered.text = <<>>
           /\ raised = "none"
           /\ "error" \in payload.keys
           /\ payload.error = "Missing"
           /\ calls = <<>>

(***************************************************************************)
(* Properties of the result rows                                           *)
(***************************************************************************)
\* C14: on success the tool returns the first L rows of the connector's
\* result in their order, L being the tool's row limit: never more than L
\* rows, and 'truncated' is true exactly when the connector returned more
\* than L rows.
C14_RowsTruncatedToLimit ==
    (pc = "done" /\ raised = "none" /\ "error" \notin payload.keys)
        => /\ Len(payload.rows) = Min(connector.nrows, RowLimit(tool))
           /\ Len(payload.rows) <= RowLimit(tool)
           /\ \A i \in DOMAIN payload.rows : payload.rows[i] = Rows(connector.nrows)[i]
           /\ payload.truncated <=> (connector.nrows > RowLimit(tool))

C14_Witness ==
    /\ pc = "done"
    /\ tool.kind = "yaml"
    /\ connector.nrows = result_limit + 1
    /\ payload.truncated
    /\ Len(payload.rows) = result_limit
    /\ payload.rows[result_limit] = result_limit

(***************************************************************************)
(* Tool Builder: yaml_tools._build_tool on one tool entry of a manifest    *)
(***************************************************************************)
MaxParams == 2

FieldNames == {"account", "period"}

\* A parameter entry of a manifest: its name, `required` and `default`
\* ("none" when the entry has no default).
ParameterSpec == [name : FieldNames, required : BOOLEAN, default : {"none", "d"}]

\* The parameter lists of a tool entry; names may repeat.
ParameterLists == UNION {[1..n -> ParameterSpec] : n \in 0..MaxParams}

\* A tool entry: name ("" when the entry has none), implementation (absent,
\* a reference that resolves, or one that does not), whether it has a
\* query_template, its parameters.
ToolConfig == [name : {"", "get_balance"},
               implementation : {"absent", "resolves", "unresolvable"},
               query_template : BOOLEAN,
               parameters : ParameterLists]

\* A field that looks at the default before it looks at `required`.
BuildFieldDefaultFirst(param) ==
    IF param.default # "none"
    THEN [required |-> FALSE, default |-> param.default, nullable |-> FALSE]
    ELSE IF param.required
    THEN [required |-> TRUE, default |-> "none", nullable |-> FALSE]
    ELSE [required |-> FALSE, default |-> "none", nullable |-> TRUE]

\* yaml_tools.py:147-156: the field made for one parameter.  A Field without
\* a default is a required field of the pydantic model.
BuildField(param) ==
    IF param.required
    THEN [required |-> TRUE, default |-> "none", nullable |-> FALSE]
    ELSE IF param.default # "none"
    THEN [required |-> FALSE, default |-> param.default, nullable |-> FALSE]
    ELSE [required |-> FALSE, default |-> "none", nullable |-> TRUE]

\* yaml_tools.py:177-189: the field made for one child property; `required`
\* is not read.
BuildNestedField(prop) ==
    IF prop.default # "none"
    THEN [required |-> FALSE, default |-> prop.default, nullable |-> FALSE]
    ELSE [required |-> FALSE, default |-> "none", nullable |-> TRUE]

\* yaml_tools.py:163-191: the model made from the child property map.
BuildNestedSchema(properties) ==
    [n \in DOMAIN properties |-> BuildNestedField(properties[n])]

\* yaml_tools.py:132-144: param.get("type") == "object" and "properties" in
\* param.
IsObjectParam(param) ==
    /\ "type" \in DOMAIN param
    /\ param.type = "object"
    /\ "properties" \in DOMAIN param

\* yaml_tools.py:133-144: the field made for an object-typed parameter.
BuildObjectField(param) ==
    [required |-> param.required, default |-> "none", nullable |-> ~param.required,
     nested |-> BuildNestedSchema(param.properties)]

\* yaml_tools.py:123-160: the dict `fields`, filled parameter by parameter
\* (a later entry of the same name replaces the earlier one).
RECURSIVE BuildInputSchema(_, _, _)
BuildInputSchema(parameters, fields, i) ==
    IF i > Len(parameters) THEN fields
    ELSE BuildInputSchema(parameters,
                          MapPut(fields, parameters[i].name,
                                 IF IsObjectParam(parameters[i])
                                 THEN BuildObjectField(parameters[i])
                                 ELSE BuildField(parameters[i])),
                          i + 1)

\* The required fields of a pydantic model.
RequiredFields(fields) == {n \in DOMAIN fields : fields[n].required}

\* yaml_tools.py:66-106, with _load_implementation (210-255) and the
\* connector test of _build_query_function (310-311).
BuildTool(config, has_connector) ==
    IF config.name = ""
    THEN [outcome |-> "ToolLoadError", tool |-> "", function |-> "",
          fields |-> EmptyMap]
    ELSE IF config.implementation = "unresolvable"
    THEN [outcome |-> "ToolLoadError", tool |-> config.name, function |-> "",
          fields |-> EmptyMap]
    ELSE IF config.implementation = "resolves"
    THEN [outcome |-> "ok", tool |-> config.name, function |-> "implementation",
          fields |-> BuildInputSchema(config.parameters, EmptyMap, 1)]
    ELSE IF config.query_template /\ ~has_connector
    THEN [outcome |-> "ToolLoadError", tool |-> config.name, function |-> "",
          fields |-> EmptyMap]
    ELSE IF config.query_template
    THEN [outcome |-> "ok", tool |-> config.name, function |-> "execute_query",
          fields |-> BuildInputSchema(config.parameters, EmptyMap, 1)]
    ELSE [outcome |-> "ToolLoadError", tool |-> config.name, function |-> "",
          fields |-> EmptyMap]

\* A tool entry and a connector (or none) about to be given to _build_tool.
InitBuilder ==
    /\ skills = EmptyMap
    /\ tool_index = EmptyMap
    /\ regCall = [op |-> "init", name |-> "", outcome |-> "ok", value |-> NoValue]
    /\ pre = NoSnapshot
    /\ tool = [kind |-> "yaml", template |-> <<>>, order |-> <<>>, limit |-> 100]
    /\ connector = [caps |-> {}, raises |-> FALSE, nrows |-> 0]
    /\ arguments = EmptyMap
    /\ pc = "ready"
    /\ rendered = NoRender
    /\ calls = <<>>
    /\ payload = NoPayload
    /\ raised = "none"
    /\ build_args \in [config : ToolConfig, connector : BOOLEAN]
    /\ built = NotBuilt
    /\ files = EmptyMap
    /\ clock = 0
    /\ loaded_skills = EmptyMap
    /\ skill_mtimes = EmptyMap
    /\ heap = EmptyMap
    /\ modules = EmptyMap
    /\ loadCall = NoLoadCall
    /\ held = NoHeld
    /\ ran = NoTool
    /\ disabled = {}
    /\ allCall = NoAllCall
    /\ loading = NoLoading
    /\ agent = NoAgent

BuildToolCall ==
    /\ built = NotBuilt
    /\ built' = BuildTool(build_args.config, build_args.connector)
    /\ UNCHANGED <<build_args, regVars, toolVars, loadVars, dirVars, raceVars, agentVars>>

BuilderNext == BuildToolCall

SpecBuilder == InitBuilder /\ [][BuilderNext]_vars

(***************************************************************************)
(* Tool entries with one object-typed parameter                            *)
(***************************************************************************)
\* A child property: `required` and `default` ("none" when it has none).
PropertySpec == [required : BOOLEAN, default : {"none", "d"}]

\* The child property maps of an object-typed parameter.
PropertyMaps == UNION {[S -> PropertySpec] : S \in SUBSET FieldNames}

\* The object-typed parameter `filters`.
ObjectParameter(required, properties) ==
    [name |-> "filters", required |-> required, default |-> "none",
     type |-> "object", properties |-> properties]

\* A tool entry whose only parameter is object-typed, about to be given to
\* _build_tool.
InitNested ==
    /\ skills = EmptyMap
    /\ tool_index = EmptyMap
    /\ regCall = [op |-> "init", name |-> "", outcome |-> "ok", value |-> NoValue]
    /\ pre = NoSnapshot
    /\ tool = [kind |-> "yaml", template |-> <<>>, order |-> <<>>, limit |-> 100]
    /\ connector = [caps |-> {}, raises |-> FALSE, nrows |-> 0]
    /\ arguments = EmptyMap
    /\ pc = "ready"
    /\ rendered = NoRender
    /\ calls = <<>>
    /\ payload = NoPayload
    /\ raised = "none"
    /\ \E r \in BOOLEAN, props \in PropertyMaps, c \in BOOLEAN,
          i \in {"resolves", "absent"}, q \in BOOLEAN :
          build_args = [config |-> [name |-> "get_balance", implementation |-> i,
                                    query_template |-> q,
                                    parameters |-> <<ObjectParameter(r, props)>>],
                        connector |-> c]
    /\ built = NotBuilt
    /\ files = EmptyMap
    /\ clock = 0
    /\ loaded_skills = EmptyMap
    /\ skill_mtimes = EmptyMap
    /\ heap = EmptyMap
    /\ modules = EmptyMap
    /\ loadCall = NoLoadCall
    /\ held = NoHeld
    /\ ran = NoTool
    /\ disabled = {}
    /\ allCall = NoAllCall
    /\ loading = NoLoading
    /\ agent = NoAgent

NestedNext == BuildToolCall

SpecNested == InitNested /\ [][NestedNext]_vars

(***************************************************************************)
(* Properties of the Tool Builder                                          *)
(***************************************************************************)
\* The entry has a name and exactly one of implementation / query_template.
WellFormedEntry ==
    /\ build_args.config.name # ""
    /\ (build_args.config.implementation # "absent") # build_args.config.query_template

\* The names of the parameters the entry declares with required: true.
DeclaredRequired ==
    {build_args.config.parameters[i].name :
        i \in {j \in DOMAIN build_args.config.parameters :
                  build_args.config.parameters[j].required}}

\* C16 as stated: for every tool entry that has a name and exactly one of
\* implementation / query_template, construction succeeds and the required
\* fields of the synthesized schema are exactly the parameters declared
\* required: true.
C16_BuildSucceedsRequiredExact ==
    (built # NotBuilt /\ WellFormedEntry)
        => /\ built.outcome = "ok"
           /\ RequiredFields(built.fields) = DeclaredRequired

DistinctParameterNames ==
    \A i, j \in DOMAIN build_args.config.parameters :
        build_args.config.parameters[i].name = build_args.config.parameters[j].name
            => i = j

\* C16 amended: for every tool entry that has a name and exactly one of
\* implementation / query_template, whose implementation reference (if any)
\* resolves, whose query_template (if any) comes with a connector and whose
\* parameters have pairwise distinct names, construction succeeds and the
\* required fields of the synthesized schema are exactly the parameters
\* declared required: true.
C16_BuildSucceedsWhenResolvable ==
    (built # NotBuilt /\ WellFormedEntry
       /\ build_args.config.implementation # "unresolvable"
       /\ (build_args.config.query_template => build_args.connector)
       /\ DistinctParameterNames)
        => /\ built.outcome = "ok"
           /\ RequiredFields(built.fields) = DeclaredRequired

C16_Witness ==
    /\ built.outcome = "ok"
    /\ built.function = "execute_query"
    /\ Len(build_args.config.parameters) = 2
    /\ build_args.config.parameters[1] =
          [name |-> "account", required |-> TRUE, default |-> "d"]
    /\ build_args.config.parameters[2].name = "period"
    /\ ~build_args.config.parameters[2].required
    /\ RequiredFields(built.fields) = {"account"}

(***************************************************************************)
(* Skill Loader: app/core/skill_loader.py.  Each skill directory holds     *)
(* SKILL.md, tools.yaml and tools.py; a file is modified in place and gets *)
(* the time of the modification as its modification time.                  *)
(***************************************************************************)
MaxClock == 3

\* The names a skill directory can have.
Dirs == {"financial", "sales"}

\* SKILL.md: two documents that parse and one that does not.
MdContents == {"md_1", "md_2", "md_bad"}

\* tools.py: two versions of the implementations.
PyContents == {"py_1", "py_2"}

ImplEntry == [name |-> "check_gl_balance", implementation |-> "resolves",
              query_template |-> FALSE, parameters |-> <<>>]

TemplateEntry == [name |-> "get_balance", implementation |-> "absent",
                  query_template |-> TRUE, parameters |-> <<>>]

\* A tool entry with neither an implementation nor a query_template.
BareEntry == [name |-> "broken", implementation |-> "absent",
              query_template |-> FALSE, parameters |-> <<>>]

\* A tool entry that is a plain string, not a mapping.
StringEntry == [name |-> "", implementation |-> "absent", query_template |-> FALSE,
                parameters |-> <<>>, mapping |-> FALSE]

\* isinstance(tool_config, dict)
IsMapping(entry) == "mapping" \notin DOMAIN entry

\* The directory has no SKILL.md.
MdAbsent == "md_absent"

\* tools.yaml: the lists of tool entries.
Manifests == {<<>>, <<ImplEntry>>, <<TemplateEntry>>, <<TemplateEntry, BareEntry>>}

\* A Skill object that was not built.
NoSkill == [name |-> "", tools |-> <<>>, md |-> ""]

\* The objects a new Skill can be.
ObjectIds == 1..(Cardinality(Dirs) + 2)

\* skill_loader.py:247-254
Max(a, b) == IF a > b THEN a ELSE b

\* A latest modification time that leaves tools.py out.
SkillMtimeNoPy(f) == Max(f.mtime.md, IF f.has_yaml THEN f.mtime.yaml ELSE 0)

SkillMtime(f) ==
    Max(f.mtime.md, Max(IF f.has_yaml THEN f.mtime.yaml ELSE 0, f.mtime.py))

\* A loop that leaves out the entries that cannot be built.
RECURSIVE LoadToolsSkipBad(_, _, _, _, _)
LoadToolsSkipBad(entries, code, i, tools, imported) ==
    IF i > Len(entries)
    THEN [outcome |-> "ok", tool |-> "", tools |-> tools, imported |-> imported]
    ELSE LET b == BuildTool(entries[i], TRUE)
         IN  IF b.outcome # "ok"
             THEN LoadToolsSkipBad(entries, code, i + 1, tools, imported)
             ELSE LoadToolsSkipBad(entries, code, i + 1,
                                   Append(tools,
                                          [name |-> b.tool, function |-> b.function,
                                           code |-> IF b.function = "implementation"
                                                    THEN code ELSE ""]),
                                   imported \/ b.function = "implementation")

\* yaml_tools.py:54-63, the loop of load_tools_from_yaml from entry i on:
\* `code` is the module importlib.import_module yields for the skill's
\* implementations, `imported` tells whether it was asked for.  For an
\* entry that is no mapping _build_tool raises and the handler's
\* tool_config.get (line 60) raises AttributeError in its turn.
RECURSIVE LoadTools(_, _, _, _, _)
LoadTools(entries, code, i, tools, imported) ==
    IF i > Len(entries)
    THEN [outcome |-> "ok", tool |-> "", tools |-> tools, imported |-> imported]
    ELSE LET b == BuildTool(entries[i], TRUE)
         IN  IF ~IsMapping(entries[i])
             THEN [outcome |-> "AttributeError", tool |-> "",
                   tools |-> <<>>, imported |-> imported]
             ELSE IF b.outcome # "ok"
             THEN [outcome |-> "ToolLoadError", tool |-> entries[i].name,
                   tools |-> <<>>, imported |-> imported]
             ELSE LoadTools(entries, code, i + 1,
                            Append(tools,
                                   [name |-> b.tool, function |-> b.function,
                                    code |-> IF b.function = "implementation"
                                             THEN code ELSE ""]),
                            imported \/ b.function = "implementation")

\* importlib.import_module (yaml_tools.py:236): the module in sys.modules if
\* it was imported before, the file's content otherwise.
ImportModule(mods, s, f) == IF s \in DOMAIN mods THEN mods[s] ELSE f.py

\* skill_loader.py:92-97 and 195-239: the SKILL.md test of load_skill, then
\* _load_skill on the files f of skill s.  Only a ToolLoadError becomes a
\* SkillLoadError (221-222).
LoadSkillResult(s, f, mods) ==
    IF f.md = "md_bad" \/ f.md = MdAbsent
    THEN [outcome |-> "SkillLoadError", tool |-> "", skill |-> NoSkill,
          imported |-> FALSE]
    ELSE IF ~f.has_yaml
    THEN [outcome |-> "ok", tool |-> "",
          skill |-> [name |-> s, tools |-> <<>>, md |-> f.md], imported |-> FALSE]
    ELSE LET t == LoadTools(f.yaml, ImportModule(mods, s, f), 1, <<>>, FALSE)
         IN  IF t.outcome = "ToolLoadError"
             THEN [outcome |-> "SkillLoadError", tool |-> t.tool, skill |-> NoSkill,
                   imported |-> t.imported]
             ELSE IF t.outcome # "ok"
             THEN [outcome |-> t.outcome, tool |-> t.tool, skill |-> NoSkill,
                   imported |-> t.imported]
             ELSE [outcome |-> "ok", tool |-> "",
                   skill |-> [name |-> s, tools |-> t.tools, md |-> f.md],
                   imported |-> t.imported]

\* The objects still referenced: by the cache or by the invocation in flight.
Live(h, cache, hd) == [o \in (DOMAIN h) \cap (Range(cache) \cup {hd.obj}) |-> h[o]]

NewObject == CHOOSE o \in ObjectIds : o \notin DOMAIN heap

\* skill_loader.py:256-261
NeedsReloadResult(s) ==
    SkillMtime(files[s]) > (IF s \in DOMAIN skill_mtimes THEN skill_mtimes[s] ELSE 0)

\* A loader over a skills directory that holds one skill, its files written
\* at time 1; nothing is loaded, no module is imported.
InitLoader ==
    /\ skills = EmptyMap
    /\ tool_index = EmptyMap
    /\ regCall = [op |-> "init", name |-> "", outcome |-> "ok", value |-> NoValue]
    /\ pre = NoSnapshot
    /\ tool = [kind |-> "yaml", template |-> <<>>, order |-> <<>>, limit |-> 100]
    /\ connector = [caps |-> {}, raises |-> FALSE, nrows |-> 0]
    /\ arguments = EmptyMap
    /\ pc = "ready"
    /\ rendered = NoRender
    /\ calls = <<>>
    /\ payload = NoPayload
    /\ raised = "none"
    /\ build_args = NoBuildArgs
    /\ built = NotBuilt
    /\ files \in [{"financial"} -> [md : {"md_1"},
                                  yaml : {<<ImplEntry>>, <<TemplateEntry>>},
                                  has_yaml : {TRUE}, py : {"py_1"},
                                  mtime : {[md |-> 1, yaml |-> 1, py |-> 1]}]]
    /\ clock = 1
    /\ loaded_skills = EmptyMap
    /\ skill_mtimes = EmptyMap
    /\ heap = EmptyMap
    /\ modules = EmptyMap
    /\ loadCall = NoLoadCall
    /\ held = NoHeld
    /\ ran = NoTool
    /\ disabled = {}
    /\ allCall = NoAllCall
    /\ loading = NoLoading
    /\ agent = NoAgent

\* A file of skill s is rewritten with another content.
ModifyMd(s, c) ==
    /\ s \in DOMAIN files
    /\ clock < MaxClock
    /\ c # files[s].md
    /\ clock' = clock + 1
    /\ files' = [files EXCEPT ![s].md = c, ![s].mtime.md = clock + 1]
    /\ UNCHANGED <<loaded_skills, skill_mtimes, heap, modules, loadCall, held, ran>>
    /\ UNCHANGED <<regVars, toolVars, buildVars, dirVars, raceVars, agentVars>>

ModifyYaml(s, c) ==
    /\ s \in DOMAIN files
    /\ clock < MaxClock
    /\ files[s].has_yaml
    /\ c # files[s].yaml
    /\ clock' = clock + 1
    /\ files' = [files EXCEPT ![s].yaml = c, ![s].mtime.yaml = clock + 1]
    /\ UNCHANGED <<loaded_skills, skill_mtimes, heap, modules, loadCall, held, ran>>
    /\ UNCHANGED <<regVars, toolVars, buildVars, dirVars, raceVars, agentVars>>

ModifyPy(s, c) ==
    /\ s \in DOMAIN files
    /\ clock < MaxClock
    /\ c # files[s].py
    /\ clock' = clock + 1
    /\ files' = [files EXCEPT ![s].py = c, ![s].mtime.py = clock + 1]
    /\ UNCHANGED <<loaded_skills, skill_mtimes, heap, modules, loadCall, held, ran>>
    /\ UNCHANGED <<regVars, toolVars, buildVars, dirVars, raceVars, agentVars>>

\* A load that rebuilds the cached Skill object in place.
LoadIntoInPlace(s, cache, op) ==
    LET r == LoadSkillResult(s, files[s], modules)
        o == IF s \in DOMAIN loaded_skills THEN loaded_skills[s] ELSE NewObject
    IN  /\ modules' = IF r.imported /\ s \notin DOMAIN modules
                      THEN MapPut(modules, s, files[s].py) ELSE modules
        /\ loaded_skills' = IF r.outcome = "ok" THEN MapPut(cache, s, o) ELSE cache
        /\ skill_mtimes' = IF r.outcome = "ok"
                           THEN MapPut(skill_mtimes, s, SkillMtime(files[s]))
                           ELSE skill_mtimes
        /\ heap' = IF r.outcome = "ok"
                   THEN Live(MapPut(heap, o, r.skill), loaded_skills', held)
                   ELSE Live(heap, loaded_skills', held)
        /\ loadCall' = [op |-> op, name |-> s, outcome |-> r.outcome, flag |-> FALSE,
                        obj |-> IF r.outcome = "ok" THEN o ELSE 0, tool |-> r.tool]

\* skill_loader.py:99-103: _load_skill, then the two cache assignments;
\* `cache` is _loaded_skills as the caller left it.  A failed _load_skill
\* leaves both maps as they are (the import of tools.py stays in sys.modules).
LoadInto(s, cache, op) ==
    LET r == LoadSkillResult(s, files[s], modules)
        o == NewObject
    IN  /\ modules' = IF r.imported /\ s \notin DOMAIN modules
                      THEN MapPut(modules, s, files[s].py) ELSE modules
        /\ loaded_skills' = IF r.outcome = "ok" THEN MapPut(cache, s, o) ELSE cache
        /\ skill_mtimes' = IF r.outcome = "ok"
                           THEN MapPut(skill_mtimes, s, SkillMtime(files[s]))
                           ELSE skill_mtimes
        /\ heap' = IF r.outcome = "ok"
                   THEN Live(MapPut(heap, o, r.skill), loaded_skills', held)
                   ELSE Live(heap, loaded_skills', held)
        /\ loadCall' = [op |-> op, name |-> s, outcome |-> r.outcome, flag |-> FALSE,
                        obj |-> IF r.outcome = "ok" THEN o ELSE 0, tool |-> r.tool]

\* skill_loader.py:78-103
LoadSkill(s) ==
    /\ s \in DOMAIN files
    /\ LoadInto(s, loaded_skills, "load_skill")
    /\ UNCHANGED <<files, clock, held, ran>>
    /\ UNCHANGED <<regVars, toolVars, buildVars, dirVars, raceVars, agentVars>>

\* skill_loader.py:263-275: the cache entry is deleted, then load_skill runs.
ReloadSkill(s) ==
    /\ s \in DOMAIN files
    /\ LoadInto(s, MapDel(loaded_skills, s), "reload_skill")
    /\ UNCHANGED <<files, clock, held, ran>>
    /\ UNCHANGED <<regVars, toolVars, buildVars, dirVars, raceVars, agentVars>>

\* A needs_reload that drops the cache entry of a skill it finds modified.
NeedsReloadEvicting(s) ==
    /\ s \in DOMAIN files
    /\ loadCall' = [op |-> "needs_reload", name |-> s, outcome |-> "ok",
                    flag |-> NeedsReloadResult(s), obj |-> 0, tool |-> ""]
    /\ loaded_skills' = IF NeedsReloadResult(s)
                        THEN MapDel(loaded_skills, s) ELSE loaded_skills
    /\ heap' = Live(heap, loaded_skills', held)
    /\ UNCHANGED <<files, clock, skill_mtimes, modules, held, ran>>
    /\ UNCHANGED <<regVars, toolVars, buildVars, dirVars, raceVars, agentVars>>

\* skill_loader.py:256-261
NeedsReload(s) ==
    /\ s \in DOMAIN files
    /\ loadCall' = [op |-> "needs_reload", name |-> s, outcome |-> "ok",
                    flag |-> NeedsReloadResult(s), obj |-> 0, tool |-> ""]
    /\ UNCHANGED <<files, clock, loaded_skills, skill_mtimes, heap, modules, held, ran>>
    /\ UNCHANGED <<regVars, toolVars, buildVars, dirVars, raceVars, agentVars>>

\* skill_loader.py:277-283: get_loaded_skill (obj, 0 for None) and is_loaded.
GetLoadedSkill(s) ==
    /\ s \in DOMAIN files
    /\ loadCall' = [op |-> "get_loaded_skill", name |-> s, outcome |-> "ok",
                    flag |-> s \in DOMAIN loaded_skills,
                    obj |-> IF s \in DOMAIN loaded_skills THEN loaded_skills[s] ELSE 0,
                    tool |-> ""]
    /\ UNCHANGED <<files, clock, loaded_skills, skill_mtimes, heap, modules, held, ran>>
    /\ UNCHANGED <<regVars, toolVars, buildVars, dirVars, raceVars, agentVars>>

\* A caller takes tool number i of the cached Skill of s and starts it
\* (tool.py:39-48, up to the await).
BeginInvoke(s, i) ==
    /\ held = NoHeld
    /\ s \in DOMAIN loaded_skills
    /\ i \in DOMAIN heap[loaded_skills[s]].tools
    /\ held' = [obj |-> loaded_skills[s], pos |-> i,
                tool |-> heap[loaded_skills[s]].tools[i]]
    /\ UNCHANGED <<files, clock, loaded_skills, skill_mtimes, heap, modules,
                   loadCall, ran>>
    /\ UNCHANGED <<regVars, toolVars, buildVars, dirVars, raceVars, agentVars>>

\* The invocation in flight completes (tool.py:50-52): what ran is the Tool
\* the caller's reference leads to now.
FinishInvoke ==
    /\ held # NoHeld
    /\ ran' = heap[held.obj].tools[held.pos]
    /\ held' = NoHeld
    /\ heap' = Live(heap, loaded_skills, NoHeld)
    /\ UNCHANGED <<files, clock, loaded_skills, skill_mtimes, modules, loadCall>>
    /\ UNCHANGED <<regVars, toolVars, buildVars, dirVars, raceVars, agentVars>>

LoaderNext ==
    \/ \E s \in Dirs, c \in MdContents : ModifyMd(s, c)
    \/ \E s \in Dirs, c \in Manifests : ModifyYaml(s, c)
    \/ \E s \in Dirs, c \in PyContents : ModifyPy(s, c)
    \/ \E s \in Dirs : LoadSkill(s)
    \/ \E s \in Dirs : ReloadSkill(s)
    \/ \E s \in Dirs : NeedsReload(s)
    \/ \E s \in Dirs : GetLoadedSkill(s)
    \/ \E s \in Dirs, i \in 1..2 : BeginInvoke(s, i)
    \/ FinishInvoke

SpecLoader == InitLoader /\ [][LoaderNext]_vars

(***************************************************************************)
(* Properties of the Skill Loader                                          *)
(***************************************************************************)
\* The first entry of the manifest of s that has neither an implementation
\* nor a query_template, 0 if there is none.
FirstBare(s) ==
    IF \E i \in DOMAIN files[s].yaml :
          files[s].yaml[i].implementation = "absent" /\ ~files[s].yaml[i].query_template
    THEN CHOOSE i \in DOMAIN files[s].yaml :
            /\ files[s].yaml[i].implementation = "absent"
            /\ ~files[s].yaml[i].query_template
            /\ \A j \in 1..(i - 1) :
                  files[s].yaml[j].implementation # "absent"
                     \/ files[s].yaml[j].query_template
    ELSE 0

FileNewerThanCached(s) ==
    \/ files[s].mtime.md > skill_mtimes[s]
    \/ files[s].has_yaml /\ files[s].mtime.yaml > skill_mtimes[s]
    \/ files[s].mtime.py > skill_mtimes[s]

\* C17: for a skill that was loaded, needs_reload returns true exactly when
\* the modification time of one of its three source files is past the value
\* cached at the last successful load; it is false directly after a
\* successful load or reload and stays false while no file changes; once
\* true it stays true until the next successful load or reload of the skill.
C17_NeedsReloadTracksMtime ==
    /\ [](\A s \in DOMAIN skill_mtimes :
             NeedsReloadResult(s) <=> FileNewerThanCached(s))
    /\ [][\A s \in Dirs :
            /\ (NeedsReload(s) /\ s \in DOMAIN skill_mtimes)
                  => (loadCall'.flag <=> FileNewerThanCached(s))
            /\ ((LoadSkill(s) \/ ReloadSkill(s)) /\ loadCall'.outcome = "ok")
                  => ~NeedsReloadResult(s)'
            /\ (s \in DOMAIN skill_mtimes /\ ~NeedsReloadResult(s) /\ files' = files)
                  => ~NeedsReloadResult(s)'
            /\ (s \in DOMAIN skill_mtimes /\ NeedsReloadResult(s)
                  /\ ~((LoadSkill(s) \/ ReloadSkill(s)) /\ loadCall'.outcome = "ok"))
                  => NeedsReloadResult(s)']_vars

C17_Witness ==
    /\ loadCall.op = "needs_reload"
    /\ loadCall.name = "financial"
    /\ loadCall.flag
    /\ "financial" \in DOMAIN skill_mtimes
    /\ skill_mtimes["financial"] = 2
    /\ files["financial"].mtime = [md |-> 1, yaml |-> 2, py |-> 3]


\* The Skill that _load_skill builds from the files of s as they are now,
\* every module read from its file.
BuiltFromCurrentFiles(s) == LoadSkillResult(s, files[s], EmptyMap).skill

\* C18: a successful reload_skill(s) leaves in the cache a new Skill object,
\* not the one cached before, built from the current content of SKILL.md,
\* tools.yaml and tools.py; the cached modification time is the current
\* maximum of the three files and needs_reload(s) is false.
C18_ReloadBuildsFromCurrentFiles ==
    [][\A s \in Dirs :
          (ReloadSkill(s) /\ loadCall'.outcome = "ok")
             => /\ s \in DOMAIN loaded_skills'
                /\ loaded_skills'[s] = loadCall'.obj
                /\ s \in DOMAIN loaded_skills => loaded_skills'[s] # loaded_skills[s]
                /\ heap'[loaded_skills'[s]] = BuiltFromCurrentFiles(s)
                /\ skill_mtimes'[s] = SkillMtime(files[s])
                /\ ~NeedsReloadResult(s)']_vars


\* The last call on the loader was needs_reload(s) and it returned true.
NeedsReloadReturnedTrue(s) ==
    loadCall.op = "needs_reload" /\ loadCall.name = s /\ loadCall.flag

\* The Skill that _load_skill would build for s now.
RebuiltNow(s) == LoadSkillResult(s, files[s], modules).skill

\* C19 as stated: once needs_reload(s) has returned true, get_loaded_skill(s)
\* returns no Skill built from the older file contents: it returns None or
\* the Skill a rebuild gives.
C19_NeedsReloadInvalidates ==
    [][\A s \in Dirs :
          (GetLoadedSkill(s) /\ NeedsReloadReturnedTrue(s) /\ loadCall'.obj # 0)
             => heap[loadCall'.obj] = RebuiltNow(s)]_vars

\* C19, amended: needs_reload(s) only reports; it changes neither the cache
\* nor the cached modification time nor any Skill.  After it has returned
\* true get_loaded_skill(s) returns the Skill object cached before, with the
\* content it had, and the cache entry of s stays that object until
\* load_skill(s) or reload_skill(s) is called.
C19_NeedsReloadOnlyReports ==
    [][\A s \in Dirs :
          /\ NeedsReload(s) => UNCHANGED <<loaded_skills, skill_mtimes, heap>>
          /\ (GetLoadedSkill(s) /\ NeedsReloadReturnedTrue(s)
                /\ s \in DOMAIN loaded_skills)
                => /\ loadCall'.obj = loaded_skills[s]
                   /\ heap'[loadCall'.obj] = heap[loaded_skills[s]]
          /\ (s \in DOMAIN loaded_skills /\ ~(LoadSkill(s) \/ ReloadSkill(s)))
                => /\ s \in DOMAIN loaded_skills'
                   /\ loaded_skills'[s] = loaded_skills[s]
                   /\ heap'[loaded_skills[s]] = heap[loaded_skills[s]]]_vars

\* SKILL.md was rewritten after the load, needs_reload has returned true and
\* the cache still holds the Skill built from the first SKILL.md.
C19_Witness ==
    /\ NeedsReloadReturnedTrue("financial")
    /\ "financial" \in DOMAIN loaded_skills
    /\ files["financial"].md = "md_2"
    /\ heap[loaded_skills["financial"]].md = "md_1"


\* The Tool the invocation in flight was started on is still what the
\* caller's reference leads to.
HeldToolIntact ==
    held # NoHeld
       => /\ held.obj \in DOMAIN heap
          /\ held.pos \in DOMAIN heap[held.obj].tools
          /\ heap[held.obj].tools[held.pos] = held.tool

\* C20: a reload during an invocation of a Tool of the previous load leaves
\* that invocation alone.  A successful reload_skill puts a new Skill object
\* into the cache, no load and no reload changes a Skill object that exists
\* (its name, its tool list, its Tools), and the invocation completes on
\* the Tool it was started on.
C20_ReloadLeavesOldToolAlone ==
    /\ []HeldToolIntact
    /\ [][/\ \A s \in Dirs :
               (ReloadSkill(s) /\ loadCall'.outcome = "ok")
                  => /\ loadCall'.obj \notin DOMAIN heap
                     /\ loaded_skills'[s] = loadCall'.obj
                     /\ held # NoHeld => loadCall'.obj # held.obj
          /\ \A o \in (DOMAIN heap) \cap (DOMAIN heap') : heap'[o] = heap[o]
          /\ FinishInvoke => ran' = held.tool]_vars

\* An invocation of check_gl_balance is in flight on the Skill of the first
\* load while a reload has put another Skill, with another tool, into the
\* cache.
C20_Witness ==
    /\ held # NoHeld
    /\ held.tool.name = "check_gl_balance"
    /\ loadCall.op = "reload_skill"
    /\ loadCall.outcome = "ok"
    /\ "financial" \in DOMAIN loaded_skills
    /\ loaded_skills["financial"] # held.obj
    /\ Len(heap[loaded_skills["financial"]].tools) = 1
    /\ heap[loaded_skills["financial"]].tools[1].name = "get_balance"
    /\ heap[held.obj].tools[held.pos] = held.tool


\* C27: a load_skill(s) or reload_skill(s) that fails leaves the loader's
\* state for s as it was: the cache entry (get_loaded_skill, is_loaded), the
\* Skill it leads to and the cached modification time; hence every name
\* with a cached modification time has a cached Skill.
C27_FailedLoadLeavesStateAsBefore ==
    /\ [](DOMAIN skill_mtimes \subseteq DOMAIN loaded_skills)
    /\ [][\A s \in Dirs :
             ((LoadSkill(s) \/ ReloadSkill(s)) /\ loadCall'.outcome # "ok")
                => /\ loaded_skills' = loaded_skills
                   /\ skill_mtimes' = skill_mtimes
                   /\ s \in DOMAIN loaded_skills
                         => heap'[loaded_skills[s]] = heap[loaded_skills[s]]]_vars


(***************************************************************************)
(* Rendering of templates whose argument values hold quotes and braces     *)
(***************************************************************************)
MaxValLen == 2

\* account stands outside and inside the block of x:
\* SELECT '{account}'{% if x %} '{account}'{% endif %}
QuotedTwiceTemplate ==
    <<"SELECT", " ", "'", "{account}", "'",
      "{%if x%}", " ", "'", "{account}", "'", "{%endif%}">>

\* Two parameters side by side: {account} {x}
TwoParamTemplate == <<"{account}", " ", "{x}">>

\* Two blocks with the same condition:
\* {% if x %}A{% endif %} {% if x %}B{% endif %}
SameCondTemplate ==
    <<"{%if x%}", "A", "{%endif%}", " ", "{%if x%}", "B", "{%endif%}">>

RenderTemplates ==
    {LedgerTemplate, QuotedTwiceTemplate, TwoParamTemplate, SameCondTemplate}

\* The tokens of a string value: a word, a quote, the text {x}.
ValueTokens == {"A", "'", "{x}"}

RenderAccountValues ==
    {StrVal(s) : s \in UNION {[1..n -> ValueTokens] : n \in 0..MaxValLen}}

RenderXValues == {NoneVal, StrVal(<<"v">>), StrVal(<<"'">>), StrVal(<<"{account}">>)}

RenderKwargs ==
    {EmptyMap}
        \cup {[p \in {"account"} |-> a] : a \in RenderAccountValues}
        \cup {[p \in {"x"} |-> v] : v \in RenderXValues}
        \cup {[p \in {"account", "x"} |-> IF p = "account" THEN a ELSE v] :
                 a \in RenderAccountValues, v \in RenderXValues}

\* A QueryTemplate of one of the templates, its parameter list in one of
\* the orders list(set(...)) can give, about to be rendered.
InitRender ==
    /\ skills = EmptyMap
    /\ tool_index = EmptyMap
    /\ regCall = [op |-> "init", name |-> "", outcome |-> "ok", value |-> NoValue]
    /\ pre = NoSnapshot
    /\ \E tpl \in RenderTemplates :
          tool \in {[kind |-> "plain", template |-> tpl, order |-> o,
                     limit |-> result_limit] : o \in Orders(Parameters(tpl))}
    /\ connector = [caps |-> {"execute_sql"}, raises |-> FALSE, nrows |-> 1]
    /\ arguments \in RenderKwargs
    /\ pc = "ready"
    /\ rendered = NoRender
    /\ calls = <<>>
    /\ payload = NoPayload
    /\ raised = "none"
    /\ build_args = NoBuildArgs
    /\ built = NotBuilt
    /\ files = EmptyMap
    /\ clock = 0
    /\ loaded_skills = EmptyMap
    /\ skill_mtimes = EmptyMap
    /\ heap = EmptyMap
    /\ modules = EmptyMap
    /\ loadCall = NoLoadCall
    /\ held = NoHeld
    /\ ran = NoTool
    /\ disabled = {}
    /\ allCall = NoAllCall
    /\ loading = NoLoading
    /\ agent = NoAgent

RenderNext == InvokeQueryFunction

SpecRender == InitRender /\ [][RenderNext]_vars

(***************************************************************************)
(* Properties of rendering with quotes and braces in the values            *)
(***************************************************************************)
RECURSIVE QuotesIn(_)
QuotesIn(s) ==
    IF s = <<>> THEN 0
    ELSE (IF Head(s) = "'" THEN 1 ELSE 0) + QuotesIn(Tail(s))

\* The quotes a text has once each {p} of a string argument is replaced by
\* the value with every quote doubled; the quotes of the template count once.
RECURSIVE QuotesWhenDoubled(_, _)
QuotesWhenDoubled(s, kwargs) ==
    IF s = <<>> THEN 0
    ELSE (IF Head(s) = "'" THEN 1
          ELSE IF \E p \in DOMAIN kwargs :
                     Head(s) = Placeholder(p) /\ kwargs[p].kind = "str"
          THEN 2 * QuotesIn(kwargs[CHOOSE p \in DOMAIN kwargs :
                                       Head(s) = Placeholder(p)].text)
          ELSE 0)
             + QuotesWhenDoubled(Tail(s), kwargs)

\* No argument value holds the text of a placeholder.
NoBracesInValues ==
    \A p \in DOMAIN arguments, q \in ParamNames :
        Placeholder(q) \notin Range(arguments[p].text)

\* C28: in the text render returns, every quote that comes from a string
\* argument is doubled, for a placeholder outside every block as for one
\* inside a block that was included.  (Stated for values that hold no
\* placeholder text and templates whose blocks have distinct conditions.)
C28_ArgumentQuotesDoubled ==
    (pc = "done" /\ tool.kind = "plain" /\ rendered.err = "none"
       /\ NoBracesInValues /\ DistinctConditions(tool.template))
        => QuotesIn(rendered.text)
              = QuotesWhenDoubled(BlocksResolved(tool.template, arguments, 1), arguments)


\* The text with every {p} of the template replaced, in one pass, by the
\* literal of argument p; nothing of a value is looked at again.
RECURSIVE FilledAtOnce(_, _)
FilledAtOnce(s, kwargs) ==
    IF s = <<>> THEN <<>>
    ELSE (IF \E p \in ParamNames : Head(s) = Placeholder(p)
          THEN Literal(kwargs, CHOOSE p \in ParamNames : Head(s) = Placeholder(p))
          ELSE <<Head(s)>>)
             \o FilledAtOnce(Tail(s), kwargs)

\* C29: rendering does not depend on the order in which the placeholders
\* are substituted: whatever order the parameter list has, a render that
\* succeeds gives the same text, and a value that holds the text {name} of another
\* parameter stands in the output as given.  (The second part stated for
\* templates without blocks.)
C29_RenderOrderIndependent ==
    (pc = "done" /\ tool.kind = "plain" /\ rendered.err = "none")
        => /\ \A o \in Orders(Parameters(tool.template)) :
                 Render(tool.template, o, arguments) = rendered
           /\ OptionalBlocks(tool.template, 1) = <<>>
                 => rendered.text
                       = Strip(CollapseBlankLines(
                             FilledAtOnce(tool.template, arguments), 1))

\* C30: when two or more blocks have the same condition parameter and it is
\* present and not null, each block is replaced by its own body: the
\* rendered text is what steps 2 and 3 make of the template with each block
\* replaced by its own filled body.  (Stated for values that hold no
\* placeholder text, invoked with no parameter missing.)
C30_EachBlockItsOwnBody ==
    (pc = "done" /\ tool.kind = "plain" /\ ~DistinctConditions(tool.template)
       /\ NothingMissing /\ NoBracesInValues
       /\ \A c \in BlockConds(OptionalBlocks(tool.template, 1)) : Given(arguments, c))
        => /\ rendered.err = "none"
           /\ rendered.text =
                Strip(CollapseBlankLines(
                    Substitute(ExpectedBlocks(tool.template, arguments, 1), tool.order,
                               BlockConds(OptionalBlocks(tool.template, 1)),
                               arguments, 1).text, 1))


(***************************************************************************)
(* Properties of nested descriptors                                        *)
(***************************************************************************)
\* C24: the nested descriptor of an object-typed parameter follows the
\* rules of top-level parameters: a child declared required is a required
\* field, a child with a default is optional with that default, any other
\* child is nullable and absent by default.
C24_NestedFollowsTopLevelRules ==
    (built.outcome = "ok")
        => LET param == build_args.config.parameters[1]
           IN  /\ DOMAIN built.fields = {"filters"}
               /\ DOMAIN built.fields["filters"].nested = DOMAIN param.properties
               /\ \A n \in DOMAIN param.properties :
                     built.fields["filters"].nested[n]
                        = BuildField([name |-> n,
                                      required |-> param.properties[n].required,
                                      default |-> param.properties[n].default])


(***************************************************************************)
(* Discovery, load_all_skills, load_skill_metadata and the enable and      *)
(* disable commands, on a skills directory of three skill directories      *)
(***************************************************************************)
\* The directory names, in sorted order ("_" sorts before the letters).
DirNames == <<"_template", "financial", "sales">>

AllDirs == Range(DirNames)

\* path.name.startswith("_")
StartsWithUnderscore(d) == d = "_template"

\* The files a skill directory can hold at the start: a skill that loads,
\* one with a tool entry that cannot be built, one with a tool entry that
\* is no mapping, one whose SKILL.md does not parse, one without SKILL.md.
DirFiles ==
    {[md |-> m, yaml |-> y, has_yaml |-> TRUE, py |-> "py_1",
      mtime |-> [md |-> IF m = MdAbsent THEN 0 ELSE 1, yaml |-> 1, py |-> 1]] :
        m \in {"md_1"}, y \in {<<TemplateEntry>>, <<TemplateEntry, BareEntry>>,
                               <<StringEntry>>}}
      \cup
    {[md |-> m, yaml |-> <<TemplateEntry>>, has_yaml |-> TRUE, py |-> "py_1",
      mtime |-> [md |-> IF m = MdAbsent THEN 0 ELSE 1, yaml |-> 1, py |-> 1]] :
        m \in {"md_bad", MdAbsent}}

\* skill_loader.py:55-76.  The .disabled markers are not looked at.
DiscoverSkills(fs) ==
    SelectSeq(DirNames,
              LAMBDA d : d \in DOMAIN fs /\ ~StartsWithUnderscore(d) /\ fs[d].md # MdAbsent)

\* skill_loader.py:99-103 as a function of the loader's state st (the two
\* maps, the objects, sys.modules): load_skill(s).
LoadStep(st, s) ==
    LET r == LoadSkillResult(s, files[s], st.modules)
        o == CHOOSE o \in ObjectIds : o \notin DOMAIN st.heap
        cache == IF r.outcome = "ok" THEN MapPut(st.loaded_skills, s, o)
                 ELSE st.loaded_skills
    IN  [outcome |-> r.outcome,
         modules |-> IF r.imported /\ s \notin DOMAIN st.modules
                     THEN MapPut(st.modules, s, files[s].py) ELSE st.modules,
         loaded_skills |-> cache,
         skill_mtimes |-> IF r.outcome = "ok"
                          THEN MapPut(st.skill_mtimes, s, SkillMtime(files[s]))
                          ELSE st.skill_mtimes,
         heap |-> IF r.outcome = "ok"
                  THEN Live(MapPut(st.heap, o, r.skill), cache, held)
                  ELSE Live(st.heap, cache, held)]

\* skill_loader.py:111-118, the loop of load_all_skills from name i on: a
\* SkillLoadError is caught, any other exception leaves the loop.  (n, the
\* loader's state after load_skill(names[i]), is computed once.)
RECURSIVE LoadAll(_, _, _, _)
LoadAll(names, i, st, result) ==
    IF i > Len(names) THEN [outcome |-> "ok", result |-> result, st |-> st]
    ELSE CHOOSE end \in
            {IF n.outcome = "ok"
             THEN LoadAll(names, i + 1, n, Append(result, names[i]))
             ELSE IF n.outcome = "SkillLoadError"
             THEN LoadAll(names, i + 1, n, result)
             ELSE [outcome |-> n.outcome, result |-> <<>>, st |-> n] :
                n \in {LoadStep(st, names[i])}} : TRUE

\* skill_loader.py:120-193
LoadSkillMetadataResult(s, include_tools) ==
    LET f == files[s]
        t == LoadTools(f.yaml, ImportModule(modules, s, f), 1, <<>>, FALSE)
        attempted == include_tools /\ f.has_yaml
        tools == IF attempted /\ t.outcome = "ok" THEN t.tools ELSE <<>>
        counted == IF f.has_yaml /\ tools = <<>> THEN Len(f.yaml) ELSE 0
    IN  IF f.md = MdAbsent \/ f.md = "md_bad"
        THEN [outcome |-> "SkillLoadError", result |-> <<>>, tool_error |-> "",
              tool_count |-> 0, imported |-> FALSE]
        ELSE IF attempted /\ t.outcome \notin {"ok", "ToolLoadError"}
        THEN [outcome |-> t.outcome, result |-> <<>>, tool_error |-> "",
              tool_count |-> 0, imported |-> t.imported]
        ELSE [outcome |-> "ok",
              result |-> [k \in DOMAIN tools |-> tools[k].name],
              tool_error |-> IF attempted /\ t.outcome = "ToolLoadError"
                             THEN t.tool ELSE "",
              tool_count |-> IF tools = <<>> THEN counted ELSE Len(tools),
              imported |-> attempted /\ t.imported]

\* Three skill directories; nothing is loaded, no directory is disabled.
InitDiscover ==
    /\ skills = EmptyMap
    /\ tool_index = EmptyMap
    /\ regCall = [op |-> "init", name |-> "", outcome |-> "ok", value |-> NoValue]
    /\ pre = NoSnapshot
    /\ tool = [kind |-> "yaml", template |-> <<>>, order |-> <<>>, limit |-> 100]
    /\ connector = [caps |-> {}, raises |-> FALSE, nrows |-> 0]
    /\ arguments = EmptyMap
    /\ pc = "ready"
    /\ rendered = NoRender
    /\ calls = <<>>
    /\ payload = NoPayload
    /\ raised = "none"
    /\ build_args = NoBuildArgs
    /\ built = NotBuilt
    /\ files \in {fs \in [AllDirs -> DirFiles] :
                    fs["_template"].md = "md_1" /\ fs["_template"].yaml = <<TemplateEntry>>}
    /\ clock = 1
    /\ loaded_skills = EmptyMap
    /\ skill_mtimes = EmptyMap
    /\ heap = EmptyMap
    /\ modules = EmptyMap
    /\ loadCall = NoLoadCall
    /\ held = NoHeld
    /\ ran = NoTool
    /\ disabled = {}
    /\ allCall = NoAllCall
    /\ loading = NoLoading
    /\ agent = NoAgent

\* skill_commands.py:423-434, disable_skill: the marker is touched.
DisableSkill(s) ==
    /\ s \in DOMAIN files
    /\ disabled' = disabled \cup {s}
    /\ allCall' = [op |-> "disable", name |-> s, flag |-> s \in disabled,
                   outcome |-> "ok", result |-> <<>>, tool_error |-> "",
                   tool_count |-> 0]
    /\ UNCHANGED <<regVars, toolVars, buildVars, loadVars, raceVars, agentVars>>

\* skill_commands.py:402-420, enable_skill: the marker is removed if there
\* is one ("already enabled" otherwise).
EnableSkill(s) ==
    /\ s \in DOMAIN files
    /\ disabled' = disabled \ {s}
    /\ allCall' = [op |-> "enable", name |-> s, flag |-> s \in disabled,
                   outcome |-> "ok", result |-> <<>>, tool_error |-> "",
                   tool_count |-> 0]
    /\ UNCHANGED <<regVars, toolVars, buildVars, loadVars, raceVars, agentVars>>

\* skill_loader.py:55-76
DiscoverCall ==
    /\ allCall' = [op |-> "discover_skills", name |-> "", flag |-> FALSE,
                   outcome |-> "ok", result |-> DiscoverSkills(files),
                   tool_error |-> "", tool_count |-> 0]
    /\ UNCHANGED <<disabled, regVars, toolVars, buildVars, loadVars, raceVars, agentVars>>

\* skill_loader.py:105-118
LoadAllSkills ==
    /\ UNCHANGED <<files, clock, loadCall, held, ran>>
    /\ UNCHANGED <<disabled, regVars, toolVars, buildVars, raceVars, agentVars>>
    /\ LET r == LoadAll(DiscoverSkills(files), 1,
                        [outcome |-> "ok", modules |-> modules,
                         loaded_skills |-> loaded_skills,
                         skill_mtimes |-> skill_mtimes, heap |-> heap], <<>>)
       IN  /\ allCall' = [op |-> "load_all_skills", name |-> "", flag |-> FALSE,
                          outcome |-> r.outcome, result |-> r.result,
                          tool_error |-> "", tool_count |-> 0]
           /\ modules' = r.st.modules
           /\ loaded_skills' = r.st.loaded_skills
           /\ skill_mtimes' = r.st.skill_mtimes
           /\ heap' = r.st.heap

\* skill_loader.py:120-193
LoadSkillMetadata(s, include_tools) ==
    /\ s \in DOMAIN files
    /\ UNCHANGED <<files, clock, loaded_skills, skill_mtimes, heap, loadCall,
                   held, ran>>
    /\ UNCHANGED <<disabled, regVars, toolVars, buildVars, raceVars, agentVars>>
    /\ LET r == LoadSkillMetadataResult(s, include_tools)
       IN  /\ allCall' = [op |-> "load_skill_metadata", name |-> s,
                          flag |-> include_tools, outcome |-> r.outcome,
                          result |-> r.result, tool_error |-> r.tool_error,
                          tool_count |-> r.tool_count]
           /\ modules' = IF r.imported /\ s \notin DOMAIN modules
                         THEN MapPut(modules, s, files[s].py) ELSE modules

\* Skills are disabled, enabled, discovered, loaded and inspected; no file
\* changes.
DiscoverNext ==
    \/ \E s \in AllDirs : DisableSkill(s)
    \/ \E s \in AllDirs : EnableSkill(s)
    \/ DiscoverCall
    \/ LoadAllSkills
    \/ \E s \in AllDirs, include_tools \in BOOLEAN : LoadSkillMetadata(s, include_tools)

SpecDiscover == InitDiscover /\ [][DiscoverNext]_vars

\* load_all_skills is called again and again while SKILL.md files change.
LoadAllNext ==
    \/ \E s \in Dirs, c \in MdContents : ModifyMd(s, c)
    \/ LoadAllSkills

SpecLoadAll == InitDiscover /\ [][LoadAllNext]_vars


(***************************************************************************)
(* Properties of discovery, load_all_skills and load_skill_metadata        *)
(***************************************************************************)
\* load_skill(s) on the files as they are now succeeds.
LoadsNow(s) == LoadSkillResult(s, files[s], modules).outcome = "ok"

\* The discovered skills that load, in discovery order.
LoadableSkills == SelectSeq(DiscoverSkills(files), LAMBDA s : LoadsNow(s))

\* C21: load_all_skills never aborts because one skill fails to load: it
\* returns exactly the discovered skills whose load_skill succeeds, in
\* discovery order, and afterwards the loader caches exactly the skills that
\* loaded and holds no cache entry and no cached modification time for a
\* skill that failed.
C21_LoadAllSkipsFailures ==
    [][LoadAllSkills =>
         /\ allCall'.outcome = "ok"
         /\ allCall'.result = LoadableSkills
         /\ DOMAIN loaded_skills' = Range(LoadableSkills)
         /\ \A s \in Range(DiscoverSkills(files)) :
              ~LoadsNow(s) => s \notin DOMAIN skill_mtimes']_vars


\* The directories that hold SKILL.md, whose name does not start with an
\* underscore and that carry no .disabled marker, in sorted order.
EnabledSkills ==
    SelectSeq(DirNames,
              LAMBDA d : /\ d \in DOMAIN files
                         /\ files[d].md # MdAbsent
                         /\ ~StartsWithUnderscore(d)
                         /\ d \notin disabled)

\* C23: after any sequence of disable, enable and discover operations,
\* discover_skills returns exactly the directories that contain SKILL.md,
\* whose name does not start with an underscore and that are not marked
\* disabled; a skill marked disabled is not loaded by load_all_skills.
C23_DisabledSkillsNotDiscovered ==
    [][/\ DiscoverCall => allCall'.result = EnabledSkills
       /\ LoadAllSkills =>
            \A s \in disabled :
               /\ s \notin Range(allCall'.result)
               /\ s \in DOMAIN loaded_skills' =>
                    /\ s \in DOMAIN loaded_skills
                    /\ loaded_skills'[s] = loaded_skills[s]]_vars


\* SKILL.md of skill s exists and parses.
MetadataParses(s) == files[s].md # MdAbsent /\ files[s].md # "md_bad"

\* Building the tools of skill s from its manifest fails.
ToolConstructionFails(s) ==
    /\ files[s].has_yaml
    /\ LoadTools(files[s].yaml, ImportModule(modules, s, files[s]), 1, <<>>,
                 FALSE).outcome # "ok"

\* C22: for a skill whose directory and SKILL.md exist and parse,
\* load_skill_metadata always returns a Skill: it never propagates a failure
\* of tool construction, and when the construction it attempts fails the
\* metadata holds the reason in tool_error and, as tool_count, the number of
\* tool entries of the manifest.
C22_MetadataNeverPropagates ==
    [][\A s \in AllDirs, include_tools \in BOOLEAN :
         LoadSkillMetadata(s, include_tools) /\ MetadataParses(s) =>
            /\ allCall'.outcome = "ok"
            /\ include_tools /\ ToolConstructionFails(s) =>
                 /\ allCall'.tool_error # ""
                 /\ allCall'.tool_count = Len(files[s].yaml)]_vars


(***************************************************************************)
(* load_skill interleaved with writes to the skill's files: the files are  *)
(* read and parsed (skill_loader.py:99), and only then are their           *)
(* modification times taken (line 101)                                     *)
(***************************************************************************)
\* skill_loader.py:90-99, up to the return of _load_skill: the files of s
\* are read as they are now.
BeginLoad(s) ==
    /\ s \in DOMAIN files
    /\ loading.pc = "idle"
    /\ loading' = [loading EXCEPT !.name = s, !.pc = "parsed", !.read = files[s]]
    /\ UNCHANGED <<files, clock, loaded_skills, skill_mtimes, heap, modules,
                   loadCall, held, ran>>
    /\ UNCHANGED <<regVars, toolVars, buildVars, dirVars, agentVars>>

\* skill_loader.py:99-103: the Skill built from what was read is cached, and
\* the modification time recorded is the one the files have now.
FinishLoad ==
    /\ loading.pc = "parsed"
    /\ LET s == loading.name
           r == LoadSkillResult(s, loading.read, modules)
           o == NewObject
       IN  /\ modules' = IF r.imported /\ s \notin DOMAIN modules
                         THEN MapPut(modules, s, loading.read.py) ELSE modules
           /\ loaded_skills' = IF r.outcome = "ok" THEN MapPut(loaded_skills, s, o)
                               ELSE loaded_skills
           /\ skill_mtimes' = IF r.outcome = "ok"
                              THEN MapPut(skill_mtimes, s, SkillMtime(files[s]))
                              ELSE skill_mtimes
           /\ heap' = IF r.outcome = "ok"
                      THEN Live(MapPut(heap, o, r.skill), loaded_skills', held)
                      ELSE Live(heap, loaded_skills', held)
           /\ loadCall' = [op |-> "load_skill", name |-> s, outcome |-> r.outcome,
                           flag |-> FALSE, obj |-> IF r.outcome = "ok" THEN o ELSE 0,
                           tool |-> r.tool]
           /\ loading' = [name |-> "", pc |-> "idle", read |-> <<>>,
                          source |-> IF r.outcome = "ok"
                                     THEN MapPut(loading.source, s, loading.read)
                                     ELSE loading.source]
    /\ UNCHANGED <<files, clock, held, ran>>
    /\ UNCHANGED <<regVars, toolVars, buildVars, dirVars, agentVars>>

\* skill_loader.py:256-261, called when no load is under way.
NeedsReloadAfterLoad(s) ==
    /\ loading.pc = "idle"
    /\ NeedsReload(s)

\* Files are written at any moment; the loader reads, records and asks.
RaceNext ==
    \/ \E s \in Dirs, c \in MdContents : ModifyMd(s, c)
    \/ \E s \in Dirs, c \in Manifests : ModifyYaml(s, c)
    \/ \E s \in Dirs, c \in PyContents : ModifyPy(s, c)
    \/ \E s \in Dirs : BeginLoad(s)
    \/ FinishLoad
    \/ \E s \in Dirs : NeedsReloadAfterLoad(s)

SpecRace == InitLoader /\ [][RaceNext]_vars

\* A file of s was written after the last successful load of s read it.
ModifiedSinceRead(s) ==
    /\ s \in DOMAIN loading.source
    /\ files[s].mtime # loading.source[s].mtime

\* C26: no modification is missed by hot-reload: if a file of skill s is
\* modified after load_skill(s) has read it, also between the parsing of the
\* files and the recording of the modification time, needs_reload(s) returns
\* true after the load completes, until the next successful load.
C26_NoModificationMissed ==
    [][\A s \in Dirs :
         NeedsReloadAfterLoad(s) /\ ModifiedSinceRead(s) => loadCall'.flag]_vars


(***************************************************************************)
(* Agent.process: the loop over model responses and tool calls             *)
(***************************************************************************)
\* The largest max_iterations an Agent is constructed with.
MaxIterations == 3

\* response.content of a model that sends none.
None == "None"

\* The contents a model response can carry.
Contents == {"Hello", None}

\* response.content or ""
ContentOrEmpty(c) == IF c = None THEN "" ELSE c

\* The tools of the registry: one that works and one that raises.
RegisteredTools == {"get_balance", "broken"}

\* The tool calls a model can ask for: a registered tool with valid
\* arguments, the same with arguments its schema rejects, a tool no skill
\* has, and a tool whose function raises.
CallOk == [name |-> "get_balance", args |-> "valid"]
CallInvalid == [name |-> "get_balance", args |-> "invalid"]
CallUnknown == [name |-> "nope", args |-> "valid"]
CallRaises == [name |-> "broken", args |-> "valid"]

\* response.tool_calls: the lists of calls one response can carry.
ToolCallLists ==
    {<<CallOk>>, <<CallUnknown>>, <<CallInvalid, CallRaises>>, <<CallRaises, CallOk>>}

\* json.dumps({"error": str(e)})
ErrorJson(e) ==
    [ToolNotFoundError |-> "{error: ToolNotFoundError}",
     ValidationError |-> "{error: ValidationError}",
     RuntimeError |-> "{error: RuntimeError}"][e]

\* The strings that report a failure.
ErrorResults == {ErrorJson(e) : e \in {"ToolNotFoundError", "ValidationError", "RuntimeError"}}

\* agent.py:118-138: every exception of get_tool, of the validation and of
\* the function becomes the returned string.
ExecuteToolResult(tool_name, tool_args) ==
    IF tool_name \notin RegisteredTools THEN ErrorJson("ToolNotFoundError")
    ELSE IF tool_args = "invalid" THEN ErrorJson("ValidationError")
    ELSE IF tool_name = "broken" THEN ErrorJson("RuntimeError")
    ELSE "{balance: 100}"

\* messages.py:26-40
SystemMsg == [role |-> "system", content |-> "prompt", tool_calls |-> <<>>,
              tool_call_id |-> 0]
UserMsg == [role |-> "user", content |-> "question", tool_calls |-> <<>>,
            tool_call_id |-> 0]
AssistantMsg(content, tool_calls) ==
    [role |-> "assistant", content |-> content, tool_calls |-> tool_calls,
     tool_call_id |-> 0]
ToolMsg(content, tool_call_id) ==
    [role |-> "tool", content |-> content, tool_calls |-> <<>>,
     tool_call_id |-> tool_call_id]

\* The ids the model gives the calls of its response number n: no two calls
\* of a conversation share one.
WithIds(tool_calls, n) ==
    [k \in DOMAIN tool_calls |->
        [name |-> tool_calls[k].name, args |-> tool_calls[k].args,
         id |-> 10 * n + k]]

\* agent.py:53-72: Agent(chat_model, registry, max_iterations); the
\* conversation holds the system prompt.
InitAgent ==
    /\ skills = EmptyMap
    /\ tool_index = EmptyMap
    /\ regCall = [op |-> "init", name |-> "", outcome |-> "ok", value |-> NoValue]
    /\ pre = NoSnapshot
    /\ tool = [kind |-> "yaml", template |-> <<>>, order |-> <<>>, limit |-> 100]
    /\ connector = [caps |-> {}, raises |-> FALSE, nrows |-> 0]
    /\ arguments = EmptyMap
    /\ pc = "ready"
    /\ rendered = NoRender
    /\ calls = <<>>
    /\ payload = NoPayload
    /\ raised = "none"
    /\ build_args = NoBuildArgs
    /\ built = NotBuilt
    /\ files = EmptyMap
    /\ clock = 1
    /\ loaded_skills = EmptyMap
    /\ skill_mtimes = EmptyMap
    /\ heap = EmptyMap
    /\ modules = EmptyMap
    /\ loadCall = NoLoadCall
    /\ held = NoHeld
    /\ ran = NoTool
    /\ disabled = {}
    /\ allCall = NoAllCall
    /\ loading = NoLoading
    /\ agent \in {[NoAgent EXCEPT !.pc = "ready", !.max_iterations = m,
                                  !.conversation = <<SystemMsg>>] :
                     m \in 0..MaxIterations}

\* agent.py:149-152: process is called; the user message is added.
Process ==
    /\ agent.pc = "ready"
    /\ agent' = [agent EXCEPT !.pc = "loop",
                              !.conversation = Append(@, UserMsg),
                              !.tool_calls_made = <<>>,
                              !.iterations = 0]
    /\ UNCHANGED <<regVars, toolVars, buildVars, loadVars, dirVars, raceVars>>

\* agent.py:154-159, 186-194: the model is invoked and its response asks for
\* no tool.
ModelAnswers(content) ==
    /\ agent.pc = "loop"
    /\ agent.iterations < agent.max_iterations
    /\ agent' = [agent EXCEPT
                   !.pc = "returned",
                   !.iterations = @ + 1,
                   !.invocations = @ + 1,
                   !.model_response = [content |-> content, tool_calls |-> <<>>],
                   !.conversation = Append(@, AssistantMsg(ContentOrEmpty(content), <<>>)),
                   !.response = [content |-> ContentOrEmpty(content),
                                 finished |-> TRUE, returned |-> TRUE]]
    /\ UNCHANGED <<regVars, toolVars, buildVars, loadVars, dirVars, raceVars>>

\* agent.py:154-167: the model is invoked and its response carries tool
\* calls; the assistant message is added.
ModelRequestsTools(content, tool_calls) ==
    /\ agent.pc = "loop"
    /\ agent.iterations < agent.max_iterations
    /\ tool_calls # <<>>
    /\ LET ids == WithIds(tool_calls, agent.iterations + 1)
       IN  agent' = [agent EXCEPT
                       !.pc = "tools",
                       !.iterations = @ + 1,
                       !.invocations = @ + 1,
                       !.model_response = [content |-> content, tool_calls |-> ids],
                       !.conversation = Append(@, AssistantMsg(ContentOrEmpty(content), ids)),
                       !.pending = ids]
    /\ UNCHANGED <<regVars, toolVars, buildVars, loadVars, dirVars, raceVars>>

\* agent.py:158-159: ainvoke raises; process ends with the exception.
ModelRaises ==
    /\ agent.pc = "loop"
    /\ agent.iterations < agent.max_iterations
    /\ agent' = [agent EXCEPT !.pc = "raised",
                              !.iterations = @ + 1,
                              !.invocations = @ + 1]
    /\ UNCHANGED <<regVars, toolVars, buildVars, loadVars, dirVars, raceVars>>

\* A loop that lets the failure of a tool end process.
ExecuteToolAborting ==
    /\ agent.pc = "tools"
    /\ agent.pending # <<>>
    /\ LET tool_call == Head(agent.pending)
           result == ExecuteToolResult(tool_call.name, tool_call.args)
       IN  agent' = IF result \in ErrorResults
                    THEN [agent EXCEPT !.pc = "raised", !.pending = <<>>]
                    ELSE [agent EXCEPT
                            !.pc = IF Tail(agent.pending) = <<>> THEN "loop" ELSE "tools",
                            !.pending = Tail(@),
                            !.conversation = Append(@, ToolMsg(result, tool_call.id)),
                            !.tool_calls_made =
                                Append(@, [tool |-> tool_call.name,
                                           args |-> tool_call.args,
                                           result |-> result])]
    /\ UNCHANGED <<regVars, toolVars, buildVars, loadVars, dirVars, raceVars>>

\* agent.py:169-184: the next tool call of the response is executed, its
\* result is added to the conversation under the call's id and noted in
\* tool_calls_made; after the last one the loop goes on.
ExecuteTool ==
    /\ agent.pc = "tools"
    /\ agent.pending # <<>>
    /\ LET tool_call == Head(agent.pending)
           result == ExecuteToolResult(tool_call.name, tool_call.args)
       IN  agent' = [agent EXCEPT
                       !.pc = IF Tail(agent.pending) = <<>> THEN "loop" ELSE "tools",
                       !.pending = Tail(@),
                       !.conversation = Append(@, ToolMsg(result, tool_call.id)),
                       !.tool_calls_made =
                           Append(@, [tool |-> tool_call.name,
                                      args |-> tool_call.args,
                                      result |-> result])]
    /\ UNCHANGED <<regVars, toolVars, buildVars, loadVars, dirVars, raceVars>>

\* agent.py:154, 196-201: the loop condition fails.
GiveUp ==
    /\ agent.pc = "loop"
    /\ agent.iterations >= agent.max_iterations
    /\ agent' = [agent EXCEPT
                   !.pc = "returned",
                   !.response = [content |-> "I couldn't complete the request",
                                 finished |-> FALSE, returned |-> TRUE]]
    /\ UNCHANGED <<regVars, toolVars, buildVars, loadVars, dirVars, raceVars>>

AgentNext ==
    \/ Process
    \/ \E content \in Contents : ModelAnswers(content)
    \/ \E content \in Contents, tool_calls \in ToolCallLists :
          ModelRequestsTools(content, tool_calls)
    \/ ModelRaises
    \/ ExecuteTool
    \/ GiveUp

\* The model answers every invocation and every tool call comes back: each
\* await of process completes.
SpecAgent == InitAgent /\ [][AgentNext]_vars /\ WF_vars(AgentNext)


(***************************************************************************)
(* Properties of Agent.process                                             *)
(***************************************************************************)
\* The positions of the assistant messages that carry tool calls.
ToolRequests ==
    {k \in DOMAIN agent.conversation :
        /\ agent.conversation[k].role = "assistant"
        /\ agent.conversation[k].tool_calls # <<>>}

\* The number of calls of the request at position k that were executed: all
\* of them, but for the request whose calls are being executed.
Executed(k) ==
    IF agent.pc = "tools" /\ \A j \in ToolRequests : j <= k
    THEN Len(agent.conversation[k].tool_calls) - Len(agent.pending)
    ELSE Len(agent.conversation[k].tool_calls)

\* Every executed tool call, failed or not, is followed in the conversation
\* by a tool-result message that carries its id and its result.
ToolResultsFollow ==
    \A k \in ToolRequests :
       \A j \in 1..Executed(k) :
          /\ k + j <= Len(agent.conversation)
          /\ agent.conversation[k + j] =
                ToolMsg(ExecuteToolResult(agent.conversation[k].tool_calls[j].name,
                                          agent.conversation[k].tool_calls[j].args),
                        agent.conversation[k].tool_calls[j].id)

\* process has ended: it returned or the model's exception left it.
Terminated == agent.pc \in {"returned", "raised"}

\* What process has returned, if it has.
ReturnsAsClaimed ==
    agent.response.returned =>
       IF agent.response.finished
       THEN /\ agent.model_response.tool_calls = <<>>
            /\ agent.response.content = ContentOrEmpty(agent.model_response.content)
            /\ Cardinality(ToolRequests) = agent.invocations - 1
       ELSE /\ agent.invocations = agent.max_iterations
            /\ Cardinality(ToolRequests) = agent.max_iterations

\* C25: Agent.process always terminates after at most max_iterations model
\* invocations: it returns finished = True with the model's content at the
\* first response that requests no tool calls, and finished = False if each
\* of the max_iterations responses requested tool calls; a tool that is
\* unknown, rejects its arguments or raises never aborts the loop, its
\* failure is appended as a tool-result message carrying the call's id.
C25_ProcessTerminates ==
    /\ [](agent.invocations <= agent.max_iterations)
    /\ []ReturnsAsClaimed
    /\ []ToolResultsFollow
    /\ [][agent.pc = "tools" => agent'.pc \in {"tools", "loop"}]_vars
    /\ [][/\ agent.pc = "loop"
          /\ agent'.invocations = agent.invocations + 1
          /\ agent'.pc # "raised"
          /\ agent'.model_response.tool_calls = <<>>
          => agent'.response.returned /\ agent'.response.finished]_vars
    /\ <>Terminated

\* process returned finished = True at its last permitted invocation, after
\* a response whose two tool calls both failed.
C25_Witness ==
    /\ agent.response.returned
    /\ agent.response.finished
    /\ agent.invocations = agent.max_iterations
    /\ \E k \in DOMAIN agent.conversation :
          /\ agent.conversation[k] = ToolMsg(ErrorJson("ValidationError"), 11)
          /\ k < Len(agent.conversation)
          /\ agent.conversation[k + 1] = ToolMsg(ErrorJson("RuntimeError"), 12)

====
